---- MODULE Spec2Model ----
(***************************************************************************)
(* The segment engine of src/engine/kvstore (KvStoreInner, FileReader,     *)
(* FileWriter) as a state machine over a directory of segment files, the   *)
(* recovery metadata file and the engine's in-memory state.                *)
(*                                                                         *)
(* A file is an inode: a directory entry (file id -> inode) plus the       *)
(* inode's content.  A FileReader and a FileWriter keep the inode they     *)
(* opened (their descriptor) even after the directory entry is removed;    *)
(* FileReader::clone and remove_file go through the path again.            *)
(***************************************************************************)
EXTENDS Integers, Sequences, FiniteSets, TLC

\* ------------------------------------------------------------------ bounds
Keys == {"a", "b"}
Vals == {"x", "y"}
\* number of set/remove calls in one behaviour
MaxOps == 5
\* number of times the directory is opened in one behaviour
MaxOpens == 2
\* number of set/remove calls on one key in one behaviour
MaxOpsOneKey == 6
\* number of set/remove calls in one behaviour with I/O errors
MaxOpsIo == 4
\* number of times the directory is opened in one behaviour on one key
MaxOpensOneKey == 3
\* number of request lines the clients send in one behaviour
MaxRequests == 3
\* number of server startups in one behaviour
MaxStarts == 3
\* the keys and the values of the requests
ReqKeys == {"a"}
ReqVals == {"x"}
\* number of set/remove calls the threads make in one behaviour
MaxCalls == 3

\* most worker threads a pool is made with
MaxWorkers == 2

\* most tasks given to one pool
MaxTasks == 3

\* most runs of the kvs program
MaxRuns == 2
\* compaction_threshold of a new store; create_new uses 64, which is scaled
\* down here so that a compaction happens within MaxOps calls
InitialThreshold == 1

\* ------------------------------------------------------- program constants
MAX_FILE_ID == 65536
MAX_FILE_SIZE == 104857600

\* ---------------------------------------------------------------- helpers
NoVal == "-"
EmptyMap == [x \in {} |-> 0]
Put(f, k, v) == [x \in (DOMAIN f) \cup {k} |-> IF x = k THEN v ELSE f[x]]
Del(f, k) == [x \in (DOMAIN f) \ {k} |-> f[x]]
Range(f) == {f[x] : x \in DOMAIN f}
MaxOf(S) == CHOOSE m \in S : \A n \in S : n <= m
MinOf(S) == CHOOSE m \in S : \A n \in S : m <= n
RECURSIVE Perms(_)
Perms(S) == IF S = {} THEN {<<>>} ELSE UNION {{<<x>> \o p : p \in Perms(S \ {x})} : x \in S}

\* byte length of a string: "y" stands for a value as long as a whole
\* segment, "h" for one half as long
StrLen(str) ==
    IF str = "y" THEN MAX_FILE_SIZE
    ELSE IF str = "h" THEN MAX_FILE_SIZE \div 2 ELSE 1

\* results of the engine's operations
Ok == [kind |-> "Ok", value |-> NoVal]
None == [kind |-> "None", value |-> NoVal]
Some(v) == [kind |-> "Some", value |-> v]
Err(msg) == [kind |-> "Err", value |-> msg]
Panic(msg) == [kind |-> "Panic", value |-> msg]

\* ------------------------------------------------------------ record codec
Insertion(k, v) == [tag |-> "Insertion", key |-> k, value |-> v]
Discard(k) == [tag |-> "Discard", key |-> k, value |-> NoVal]

\* serde_json::to_string(command): {"Insertion":{"key":"K","value":"V"}} or
\* {"Discard":{"key":"K"}}, by its byte count
JsonLen(cmd) ==
    IF cmd.tag = "Insertion" THEN 35 + StrLen(cmd.key) + StrLen(cmd.value)
    ELSE 22 + StrLen(cmd.key)

\* a line of a segment: the JSON text and the line's bytes, newline included
Serialize(cmd) == [json |-> cmd, bytes |-> JsonLen(cmd) + 1]
\* what read_line yields at the end of the file, and in the middle of a line
EofLine == [json |-> [tag |-> "", key |-> NoVal, value |-> NoVal], bytes |-> 0]
PartialLine(n) == [json |-> [tag |-> "partial", key |-> NoVal, value |-> NoVal], bytes |-> n]
ParseError == [tag |-> "ParseError", key |-> NoVal, value |-> NoVal]

\* serde_json::from_str::<Command>
Parse(line) == IF line.json.tag \in {"Insertion", "Discard"} THEN line.json ELSE ParseError

RECURSIVE Size(_)
Size(content) ==
    IF content = <<>> THEN 0
    ELSE content[Len(content)].bytes + Size(SubSeq(content, 1, Len(content) - 1))

\* byte offset at which line i of a file starts
Off(content, i) == Size(SubSeq(content, 1, i - 1))

\* seek(Start(pos)); read_line
ReadLineAt(content, pos) ==
    IF \E i \in 1..Len(content) : Off(content, i) = pos
    THEN content[CHOOSE i \in 1..Len(content) : Off(content, i) = pos]
    ELSE IF pos >= Size(content) THEN EofLine
    ELSE PartialLine(MinOf({o \in {Off(content, i) : i \in 2..(Len(content) + 1)} : o > pos}) - pos)

\* ------------------------------------------------------------------ state
VARIABLES
    files,                 \* the directory: segment id -> inode of NNNNN.log
    inodes,                \* inode -> the lines of the file
    dump,                  \* content of .dumpfile
    proc,                  \* "closed": no engine; "ready": an engine is open;
                           \* "faulted": an engine is open, one of its calls met an I/O fault
    idx_map,               \* KvStoreInner.idx_map: key -> CommandPosition
    readers,               \* KvStoreInner.readers: segment id -> inode held open
    writer,                \* KvStoreInner.writer: FileWriter
    uncompacted_num,       \* KvStoreInner.uncompacted_num
    id_generator,          \* KvStoreInner.id_generator.count
    compaction_threshold,  \* KvStoreInner.compaction_threshold
    acked,                 \* key -> value of the last set/remove that returned Ok
    last,                  \* the last call and what it returned
    pending,               \* the call a process stop interrupted, if any
    nops,                  \* set/remove calls made so far
    nopens,                \* opens made so far
    rlock,                 \* threads holding a read guard of KvStore.inner
    wlock,                 \* the thread holding the write guard, if any
    pc,                    \* thread -> where it is in its call
    arg,                   \* thread -> the call it makes
    loc,                   \* thread -> the CommandPosition its get looked up
    seen,                  \* thread -> values its key had while its get ran
    comp,                  \* the locals of a compaction in progress
    lin,                   \* key -> value, by the calls this handle completed
    mark,                  \* the content of the engine marker file ("" when absent or empty)
    sled,                  \* key -> value held by the sled database of the directory
    server,                \* the server process: where it is, its engine, its connection
    net,                   \* connection -> its state and the lines in flight each way
    hist,                  \* connection -> instructions sent, handled and answered
    nreq,                  \* request lines sent so far
    nstarts,               \* server startups so far
    pool,                  \* SharedQueueThreadPool: its sender, threads.len(), the channel
    workers,               \* the threads the pool and its guards started, in order
    started,               \* ids of the tasks taken from the channel, in order
    nspawn,                \* spawn calls made so far
    cli,                   \* the last run of the kvs program: arguments, output, exit code
    storage,               \* the two-file store's directory: file name -> lines
    config,                \* the two-file store's config.json
    yolk                   \* KvStoreYolk of the open two-file store

vars == <<files, inodes, dump, proc, idx_map, readers, writer, uncompacted_num,
          id_generator, compaction_threshold, acked, last, pending, nops, nopens,
          rlock, wlock, pc, arg, loc, seen, comp, lin,
          mark, sled, server, net, hist, nreq, nstarts,
          pool, workers, started, nspawn, cli, storage, config, yolk>>

\* the state of the engine, of its directory and of its caller
kvars == <<files, inodes, dump, proc, idx_map, readers, writer, uncompacted_num,
           id_generator, compaction_threshold, acked, last, pending, nops, nopens>>

\* the state of the worker pool
pvars == <<pool, workers, started, nspawn>>

\* the state of the server, of its connections and of its clients
svars == <<mark, sled, server, net, hist, nreq, nstarts>>

\* the state of the two-file store and of its directory
lvars == <<storage, config, yolk>>

\* the state that belongs to other programs than the engine's caller
ovars == <<svars, pvars, cli, lvars>>

\* the state of the threads and of the lock
tvars == <<rlock, wlock, pc, arg, loc, seen, comp, lin>>

NoDump == [present |-> FALSE, complete |-> FALSE, compaction_threshold |-> 0,
           frozen_idx_map |-> EmptyMap, uncompacted_size |-> 0]
NoWriter == [file_id |-> 0, ino |-> 0, total_size |-> 0]

\* the directory and the engine as one value, for the operators below
State == [files |-> files, inodes |-> inodes, dump |-> dump,
          idx_map |-> idx_map, readers |-> readers, writer |-> writer,
          uncompacted_num |-> uncompacted_num, id_generator |-> id_generator,
          compaction_threshold |-> compaction_threshold]

\* inodes no directory entry and no open descriptor refers to are freed
Collect(s) ==
    LET used == Range(s.files) \cup Range(s.readers) \cup {s.writer.ino}
    IN [s EXCEPT !.inodes = [n \in (DOMAIN s.inodes) \cap used |-> s.inodes[n]]]

\* dropping the engine closes every descriptor and forgets the in-memory state
Dropped(s) ==
    Collect([s EXCEPT !.idx_map = EmptyMap, !.readers = EmptyMap, !.writer = NoWriter,
                      !.uncompacted_num = 0, !.id_generator = 0,
                      !.compaction_threshold = 0])

Install(s) ==
    /\ files' = s.files
    /\ inodes' = s.inodes
    /\ dump' = s.dump
    /\ idx_map' = s.idx_map
    /\ readers' = s.readers
    /\ writer' = s.writer
    /\ uncompacted_num' = s.uncompacted_num
    /\ id_generator' = s.id_generator
    /\ compaction_threshold' = s.compaction_threshold

\* ------------------------------------------------------- file_operators.rs
FreshIno(s) == MinOf({n \in 1..(Cardinality(DOMAIN s.inodes) + 1) : n \notin DOMAIN s.inodes})

\* OpenOptions::new().create(true).append(true).open(path)
CreateFile(s, id) ==
    IF id \in DOMAIN s.files THEN s
    ELSE [s EXCEPT !.files = Put(@, id, FreshIno(s)),
                   !.inodes = Put(@, FreshIno(s), <<>>)]

\* FileWriter::open on a file that exists: total_size starts at 0
FileWriterOpen(s, id) == [file_id |-> id, ino |-> s.files[id], total_size |-> 0]

\* the position a FileWriter writes at: the end of its file
StreamPosition(s, w) == [file_id |-> w.file_id, pos |-> Size(s.inodes[w.ino])]

\* file.write(bytes) through the writer's descriptor
WriteLine(s, w, line) ==
    IF line.bytes = 0 THEN s
    ELSE [s EXCEPT !.inodes = [@ EXCEPT ![w.ino] = Append(@, line)]]

Grown(w, line) == [w EXCEPT !.total_size = @ + line.bytes]

\* CycleCounter::next
CycleNext(count) == (count + 1) % MAX_FILE_ID

\* FileReader::query_command: the clone opens the path again (and panics when
\* the path is gone), then reads the line at pos and decodes it
QueryCommand(s, id, pos) ==
    IF id \notin DOMAIN s.files THEN Panic("Failed to open file")
    ELSE LET cmd == Parse(ReadLineAt(s.inodes[s.files[id]], pos))
         IN IF cmd = ParseError THEN Err("parse") ELSE [kind |-> "Cmd", value |-> cmd]

\* ------------------------------------------------------------ kvstore.rs
\* Option<&CommandPosition>::None
NoPos == [file_id |-> 0, pos |-> -1]

\* KvStoreInner::get, line 159: the index lookup
Lookup(s, key) == IF key \in DOMAIN s.idx_map THEN s.idx_map[key] ELSE NoPos

\* a get that takes an index entry without a reader for a missing key
GetAt_MissingReaderIsNone(s, key, cmd_pos) ==
    IF cmd_pos = NoPos \/ cmd_pos.file_id \notin DOMAIN s.readers THEN None
    ELSE LET q == QueryCommand(s, cmd_pos.file_id, cmd_pos.pos)
         IN IF q.kind # "Cmd" THEN q
            ELSE IF q.value.tag = "Insertion"
                 THEN IF q.value.key = key THEN Some(q.value.value)
                      ELSE Err("Key mismatched")
                 ELSE Err("Mismatched command")

\* KvStoreInner::get, lines 160-177: the read of the record the lookup found
GetAt(s, key, cmd_pos) ==
    IF cmd_pos = NoPos THEN None
    ELSE IF cmd_pos.file_id \notin DOMAIN s.readers THEN Err("Failed to find file")
    ELSE LET q == QueryCommand(s, cmd_pos.file_id, cmd_pos.pos)
         IN IF q.kind # "Cmd" THEN q
            ELSE IF q.value.tag = "Insertion"
                 THEN IF q.value.key = key THEN Some(q.value.value)
                      ELSE Err("Key mismatched")
                 ELSE Err("Mismatched command")

\* KvStoreInner::get
Get(s, key) == GetAt(s, key, Lookup(s, key))

\* KvStoreInner::set, lines 278-292: append the record, then index it
SetAppend(s, key, value) ==
    LET line == Serialize(Insertion(key, value))
    IN [WriteLine(s, s.writer, line) EXCEPT
            !.writer = Grown(@, line),
            !.idx_map = Put(@, key, StreamPosition(s, s.writer)),
            !.uncompacted_num = IF key \in DOMAIN s.idx_map THEN @ + 1 ELSE @]

\* KvStoreInner::set, lines 293-306: rotate once the writer passed MAX_FILE_SIZE
SetRotate(s) ==
    IF s.writer.total_size > MAX_FILE_SIZE
    THEN LET next_id == s.id_generator
             s1 == CreateFile(s, next_id)
         IN [s1 EXCEPT !.id_generator = CycleNext(next_id),
                       !.writer = FileWriterOpen(s1, next_id),
                       !.readers = Put(@, next_id, s1.files[next_id])]
    ELSE s

\* a trigger that fires already when the counter reaches the threshold
NeedCompaction_Inclusive(s) == s.uncompacted_num >= s.compaction_threshold

\* KvStoreInner::need_compaction
NeedCompaction(s) == s.uncompacted_num > s.compaction_threshold

\* compaction, lines 198-201: the locals, the first output segment, the drain
CompactionBegin(s) ==
    LET file_id == s.id_generator
        s1 == CreateFile(s, file_id)
    IN [s |-> [s1 EXCEPT !.id_generator = CycleNext(file_id), !.idx_map = EmptyMap],
        old_idx_map |-> s.idx_map,
        new_idx_map |-> EmptyMap,
        new_reader_map |-> EmptyMap,
        file_id |-> file_id,
        writer |-> FileWriterOpen(s1, file_id),
        err |-> NoVal]

\* compaction, lines 202-224: one turn of the loop, for one drained entry
CompactionCopy(c, key) ==
    LET cmd_pos == c.old_idx_map[key]
    IN IF cmd_pos.file_id \notin DOMAIN c.s.readers
       THEN [c EXCEPT !.err = "Failed to find file"]
       ELSE LET command_str == ReadLineAt(c.s.inodes[c.s.readers[cmd_pos.file_id]], cmd_pos.pos)
                pos == StreamPosition(c.s, c.writer)
                s1 == WriteLine(c.s, c.writer, command_str)
                w1 == Grown(c.writer, command_str)
            IN IF w1.total_size > MAX_FILE_SIZE
               THEN LET next_id == s1.id_generator
                        s2 == CreateFile(s1, next_id)
                    IN [c EXCEPT !.s = [s2 EXCEPT !.id_generator = CycleNext(next_id)],
                                 !.new_idx_map = Put(@, key, pos),
                                 !.new_reader_map = Put(@, c.file_id, s1.files[c.file_id]),
                                 !.file_id = next_id,
                                 !.writer = FileWriterOpen(s2, next_id)]
               ELSE [c EXCEPT !.s = s1,
                              !.new_idx_map = Put(@, key, pos),
                              !.writer = w1]

\* the loop over idx_map.drain(), in the order the hash map yields the entries;
\* an error leaves the loop
RECURSIVE CompactionLoop(_, _)
CompactionLoop(c, order) ==
    IF order = <<>> \/ c.err # NoVal THEN c
    ELSE CompactionLoop(CompactionCopy(c, Head(order)), Tail(order))

\* compaction, lines 226-235: the last reader, the counters, the two swaps
CompactionSwap(c) ==
    [c EXCEPT !.s = [c.s EXCEPT !.writer = c.writer,
                                !.uncompacted_num = 0,
                                !.compaction_threshold = @ * 2,
                                !.idx_map = c.new_idx_map,
                                !.readers = Put(c.new_reader_map, c.file_id, c.s.files[c.file_id])],
              !.new_reader_map = c.s.readers]

\* PersistentStruct::dump_to_file, when it completes
DumpToFile(s) ==
    [s EXCEPT !.dump = [present |-> TRUE, complete |-> TRUE,
                        compaction_threshold |-> s.compaction_threshold,
                        frozen_idx_map |-> s.idx_map,
                        uncompacted_size |-> s.uncompacted_num]]

\* compaction, lines 245-247: remove_file on each old reader, in the order the
\* hash map yields them.  A path that is gone makes remove_file fail and ends
\* the loop; first is the set of readers the map yielded before that one
CompactionRemove(c, first) ==
    LET old == DOMAIN c.new_reader_map
    IN IF old \subseteq DOMAIN c.s.files
       THEN [c EXCEPT !.s = [c.s EXCEPT !.files = [id \in (DOMAIN @) \ old |-> @[id]]]]
       ELSE [c EXCEPT !.s = [c.s EXCEPT !.files = [id \in (DOMAIN @) \ first |-> @[id]]],
                      !.err = "Failed to remove outdated file"]

\* KvStoreInner::compaction; korder is the order of idx_map.drain(), first the
\* old readers yielded before one whose file is gone
Compaction(s, korder, first) ==
    LET c1 == CompactionLoop(CompactionBegin(s), korder)
        c2 == CompactionSwap(c1)
        c3 == CompactionRemove([c2 EXCEPT !.s = DumpToFile(c2.s)], first)
    IN IF c1.err # NoVal THEN [s |-> Collect(c1.s), res |-> Err(c1.err)]
       ELSE IF c3.err # NoVal THEN [s |-> Collect(c3.s), res |-> Err(c3.err)]
       ELSE [s |-> Collect(c3.s), res |-> Ok]

\* KvStoreInner::set, lines 307-310: compact when the counter passed the threshold
SetCompact(s1, korder, first) ==
    IF NeedCompaction(s1) THEN Compaction(s1, korder, first)
    ELSE [s |-> Collect(s1), res |-> Ok]

\* KvStoreInner::set
SetInner(s, key, value, korder, first) ==
    SetCompact(SetRotate(SetAppend(s, key, value)), korder, first)

\* a remove that appends the Discard before it looks the key up
RemoveInner_AppendsFirst(s, key) ==
    LET line == Serialize(Discard(key))
        s1 == [WriteLine(s, s.writer, line) EXCEPT !.writer = Grown(@, line)]
    IN IF key \in DOMAIN s.idx_map
       THEN [s |-> [s1 EXCEPT !.idx_map = Del(@, key)], res |-> Ok]
       ELSE [s |-> s1, res |-> Err("KeyNotFound")]

\* KvStoreInner::remove
RemoveInner(s, key) ==
    IF key \in DOMAIN s.idx_map
    THEN LET line == Serialize(Discard(key))
         IN [s |-> [WriteLine(s, s.writer, line) EXCEPT
                        !.writer = Grown(@, line),
                        !.idx_map = Del(@, key)],
             res |-> Ok]
    ELSE [s |-> s, res |-> Err("KeyNotFound")]

\* KvStoreInner::replay over CommandIter: the records of one segment from
\* offset 0, up to the first line that does not decode (the end of the file
\* included); r is [idx_map, uncompacted]
RECURSIVE Replay(_, _, _, _)
Replay(r, content, id, i) ==
    IF i > Len(content) \/ Parse(content[i]) = ParseError THEN r
    ELSE LET command == Parse(content[i])
             command_pos == [file_id |-> id, pos |-> Off(content, i)]
         IN IF command.tag = "Insertion"
            THEN Replay([idx_map |-> Put(r.idx_map, command.key, command_pos),
                         uncompacted |-> IF command.key \in DOMAIN r.idx_map
                                         THEN r.uncompacted + 1 ELSE r.uncompacted],
                        content, id, i + 1)
            ELSE Replay([idx_map |-> Del(r.idx_map, command.key),
                         uncompacted |-> r.uncompacted + 2],
                        content, id, i + 1)

\* KvStoreInner::create_new
CreateNew(s) ==
    LET s1 == CreateFile(s, 0)
    IN [s |-> [DumpToFile([s1 EXCEPT !.idx_map = EmptyMap,
                                     !.uncompacted_num = 0,
                                     !.compaction_threshold = InitialThreshold])
                  EXCEPT !.writer = FileWriterOpen(s1, 0),
                         !.readers = Put(EmptyMap, 0, s1.files[0]),
                         !.id_generator = 1],
        res |-> Ok]

\* KvStoreInner::retrieving_from_disk
RetrievingFromDisk(s) ==
    IF ~s.dump.complete THEN [s |-> s, res |-> Err("failed to restore")]
    ELSE IF DOMAIN s.files = {} THEN [s |-> s, res |-> Panic("unwrap on None")]
    ELSE LET unmerged_file_id == MaxOf(DOMAIN s.files)
             r == Replay([idx_map |-> s.dump.frozen_idx_map,
                          uncompacted |-> s.dump.uncompacted_size],
                         s.inodes[s.files[unmerged_file_id]], unmerged_file_id, 1)
         IN [s |-> [s EXCEPT !.idx_map = r.idx_map,
                             !.readers = s.files,
                             !.writer = FileWriterOpen(s, unmerged_file_id),
                             !.uncompacted_num = r.uncompacted,
                             !.id_generator = unmerged_file_id,
                             !.compaction_threshold = s.dump.compaction_threshold],
             res |-> Ok]

\* KvStoreInner::open
OpenInner(s) == IF s.dump.present THEN RetrievingFromDisk(s) ELSE CreateNew(s)

\* ---------------------------------------------------------------- actions
NoAck == [k \in Keys |-> NoVal]
NoCall == [op |-> "none", key |-> NoVal, value |-> NoVal]
Call(op, key, value, res) == [op |-> op, key |-> key, value |-> value, res |-> res,
                              compacted |-> FALSE, allowed |-> {}]

\* the threads that hold a clone of the handle
Threads == {"t1", "t2"}
NoThread == "-"
NoComp == [s |-> NoVal, old_idx_map |-> EmptyMap, new_idx_map |-> EmptyMap,
           new_reader_map |-> EmptyMap, file_id |-> 0, writer |-> NoWriter, err |-> NoVal]

\* the client connections
Conns == {"c1", "c2"}
NoConn == "-"
\* a server process that does not run
ServerDown == [state |-> "down", config |-> NoVal, engine |-> NoVal, cur |-> NoConn,
               backlog |-> <<>>, outcome |-> "none"]
\* a connection that is not open: no peer and nothing in flight
NoConnection == [state |-> "closed", inbox |-> <<>>, outbox |-> <<>>]
NoHistory == [sent |-> <<>>, done |-> <<>>, got |-> <<>>, raw |-> FALSE]

\* no pool was made yet
NoPool == [made |-> FALSE, alive |-> FALSE, threads |-> 0, queue |-> <<>>]

\* config.json is absent
NoConfig == [current_file |-> NoVal, log_num |-> 0]

\* no two-file store is open
NoYolk == [fp |-> NoVal, mem_map |-> EmptyMap, log_num |-> 0, current_file |-> NoVal]

\* the kvs program was not run yet
NoRun == [n |-> 0, args |-> <<>>, stdout |-> <<>>, stderr |-> <<>>, code |-> 0]

Init ==
    /\ files = EmptyMap
    /\ inodes = EmptyMap
    /\ dump = NoDump
    /\ proc = "closed"
    /\ idx_map = EmptyMap
    /\ readers = EmptyMap
    /\ writer = NoWriter
    /\ uncompacted_num = 0
    /\ id_generator = 0
    /\ compaction_threshold = 0
    /\ acked = NoAck
    /\ last = Call("none", NoVal, NoVal, Ok)
    /\ pending = NoCall
    /\ nops = 0
    /\ nopens = 0
    /\ rlock = {}
    /\ wlock = NoThread
    /\ pc = [t \in Threads |-> "idle"]
    /\ arg = [t \in Threads |-> NoCall]
    /\ loc = [t \in Threads |-> NoPos]
    /\ seen = [t \in Threads |-> {}]
    /\ comp = NoComp
    /\ lin = NoAck
    /\ mark = ""
    /\ sled = NoAck
    /\ server = ServerDown
    /\ net = [c \in Conns |-> NoConnection]
    /\ hist = [c \in Conns |-> NoHistory]
    /\ nreq = 0
    /\ nstarts = 0
    /\ pool = NoPool
    /\ workers = <<>>
    /\ started = <<>>
    /\ nspawn = 0
    /\ cli = NoRun
    /\ storage = EmptyMap
    /\ config = NoConfig
    /\ yolk = NoYolk

\* KvStore::open(dir); a failed open leaves no engine
CallOpen ==
    /\ proc = "closed"
    /\ LET o == OpenInner(State)
       IN /\ Install(IF o.res = Ok THEN o.s ELSE Dropped(o.s))
          /\ proc' = IF o.res = Ok THEN "ready" ELSE "closed"
          /\ last' = Call("open", NoVal, NoVal, o.res)
    /\ nopens' = nopens + 1
    /\ UNCHANGED <<acked, pending, nops>>
    /\ UNCHANGED <<tvars, ovars>>

\* KvStore::open(dir), one of at most MaxOpens opens
Open == nopens < MaxOpens /\ CallOpen

\* drop(store): KvStoreInner has no Drop of its own and File writes are not
\* buffered, so the directory is left as it is; the call record keeps the
\* index the engine held
CallClose ==
    /\ proc = "ready"
    /\ Install(Dropped(State))
    /\ proc' = "closed"
    /\ last' = [Call("close", NoVal, NoVal, Ok) EXCEPT !.allowed = {idx_map}]
    /\ UNCHANGED <<acked, pending, nops, nopens>>
    /\ UNCHANGED <<tvars, ovars>>

\* drop(store) when the directory can be opened again
Close == nopens < MaxOpens /\ CallClose

\* store.get(key) from the only thread of the process: get(&self) reads and
\* changes nothing, its result is Get(State, key); a panic ends the process
CallGet(key) ==
    IF Get(State, key).kind = "Panic"
    THEN /\ Install(Dropped(State))
         /\ proc' = "closed"
         /\ last' = Call("get", key, NoVal, Get(State, key))
         /\ UNCHANGED <<acked, pending, nops, nopens>>
         /\ UNCHANGED <<tvars, ovars>>
    ELSE UNCHANGED vars

DoGet(key) == proc = "ready" /\ CallGet(key)

\* the orders in which idx_map.drain() may yield the keys; they only matter
\* to a set that compacts
KeyOrders(s1) == IF NeedCompaction(s1) THEN Perms(DOMAIN s1.idx_map) ELSE {<<>>}

\* the sets of old readers that may come before one whose file is gone
RemovedFirst(s1) ==
    IF NeedCompaction(s1) /\ ~(DOMAIN s1.readers \subseteq DOMAIN s1.files)
    THEN SUBSET ((DOMAIN s1.readers) \cap (DOMAIN s1.files))
    ELSE {{}}

\* store.set(key, value)
CallSet(key, value) ==
    /\ proc = "ready"
    /\ LET s1 == SetRotate(SetAppend(State, key, value))
       IN \E korder \in KeyOrders(s1), first \in RemovedFirst(s1) :
            LET o == SetCompact(s1, korder, first)
            IN /\ Install(o.s)
               /\ last' = [Call("set", key, value, o.res) EXCEPT !.compacted = NeedCompaction(s1)]
               /\ acked' = IF o.res = Ok THEN [acked EXCEPT ![key] = value] ELSE acked
    /\ nops' = nops + 1
    /\ pending' = NoCall
    /\ UNCHANGED <<proc, nopens>>
    /\ UNCHANGED <<tvars, ovars>>

\* store.set(key, value), one of at most MaxOps calls
DoSet(key, value) == nops < MaxOps /\ CallSet(key, value)

\* store.remove(key)
DoRemove(key) ==
    /\ proc = "ready"
    /\ nops < MaxOps
    /\ LET o == RemoveInner(State, key)
       IN /\ Install(o.s)
          /\ last' = Call("remove", key, NoVal, o.res)
          /\ acked' = IF o.res = Ok THEN [acked EXCEPT ![key] = NoVal] ELSE acked
    /\ nops' = IF RemoveInner(State, key).res = Ok THEN nops + 1 ELSE nops
    /\ pending' = NoCall
    /\ UNCHANGED <<proc, nopens>>
    /\ UNCHANGED <<tvars, ovars>>

Next ==
    \/ Open
    \/ Close
    \/ \E key \in Keys : DoGet(key)
    \/ \E key \in Keys, value \in Vals : DoSet(key, value)
    \/ \E key \in Keys : DoRemove(key)

Spec == Init /\ [][Next]_vars

\* the calls on one key alone, in behaviours long enough for a second compaction
DoSetLong(value) == nops < MaxOpsOneKey /\ CallSet("a", value)

NextOneKey ==
    \/ Open
    \/ Close
    \/ DoGet("a")
    \/ \E value \in Vals : DoSetLong(value)
    \/ DoRemove("a")

SpecOneKey == Init /\ [][NextOneKey]_vars

\* ------------------------------------------------------- process stops
\* PersistentStruct::dump_to_file stopped after the file was opened with
\* truncate(true) and before serde_json wrote all of it
DumpTruncated(s) == [s EXCEPT !.dump = [NoDump EXCEPT !.present = TRUE]]

\* what get returns for each key
Mapping(s) == [k \in Keys |-> Get(s, k)]

\* the stops of a compaction after dump_to_file returned (line 243) and
\* before, within or right after the remove_file loop: the directory left
\* behind, and the mapping the engine held at that point
CompactionDumped(s1) ==
    LET whole == {c \in {CompactionLoop(CompactionBegin(s1), korder) :
                            korder \in Perms(DOMAIN s1.idx_map)} : c.err = NoVal}
    IN {[s |-> [DumpToFile(CompactionSwap(c).s) EXCEPT
                    !.files = [id \in (DOMAIN @) \ gone |-> @[id]]],
         map |-> Mapping(DumpToFile(CompactionSwap(c).s))] :
            c \in whole, gone \in SUBSET ((DOMAIN s1.readers) \cap (DOMAIN s1.files))}

\* the mappings of the compaction of store.set(key, value) the stop cut short
\* after its metadata write, leaving directory d; none for an earlier stop
DumpedMappings(s, key, value, d) ==
    LET s1 == SetRotate(SetAppend(s, key, value))
    IN IF NeedCompaction(s1)
       THEN {r.map : r \in {x \in CompactionDumped(s1) : x.s = d}}
       ELSE {}

\* the states of the directory in which a process stop may interrupt
\* KvStoreInner::compaction
CompactionStops(s1) ==
    LET loops == {[o \in {"order"} |-> CompactionLoop(CompactionBegin(s1), SubSeq(korder, 1, n))] :
                     korder \in Perms(DOMAIN s1.idx_map), n \in 0..Cardinality(DOMAIN s1.idx_map)}
        whole == {l.order : l \in {m \in loops : Cardinality(DOMAIN m.order.new_idx_map) = Cardinality(DOMAIN s1.idx_map)
                                                  /\ m.order.err = NoVal}}
        swapped == {CompactionSwap(c) : c \in whole}
    IN {l.order.s : l \in loops}
       \cup {DumpTruncated(c.s) : c \in swapped}
       \cup {[DumpToFile(c.s) EXCEPT !.files = [id \in (DOMAIN @) \ gone |-> @[id]]] :
                c \in swapped, gone \in SUBSET ((DOMAIN s1.readers) \cap (DOMAIN s1.files))}

\* the states of the directory in which a process stop may interrupt
\* KvStoreInner::set
SetStops(s, key, value) ==
    LET s0 == SetAppend(s, key, value)
        s1 == SetRotate(s0)
    IN {s0, s1} \cup (IF NeedCompaction(s1) THEN CompactionStops(s1) ELSE {})

\* the process stops inside store.set(key, value), which never returns
StopSet(key, value) ==
    /\ proc = "ready"
    /\ \E s \in SetStops(State, key, value) :
          /\ Install(Dropped(s))
          /\ last' = [Call("stop", key, value, Ok) EXCEPT
                         !.allowed = DumpedMappings(State, key, value, s)]
    /\ proc' = "closed"
    /\ pending' = [op |-> "set", key |-> key, value |-> value]
    /\ nops' = nops + 1
    /\ UNCHANGED <<acked, nopens>>
    /\ UNCHANGED <<tvars, ovars>>

\* a stop inside one of at most MaxOps calls, the directory opened again later
StopInSet(key, value) == nops < MaxOps /\ nopens < MaxOpens /\ StopSet(key, value)

\* the process stops inside store.remove(key) after the Discard was appended
StopInRemove(key) ==
    /\ proc = "ready"
    /\ nops < MaxOps
    /\ nopens < MaxOpens
    /\ key \in DOMAIN idx_map
    /\ Install(Dropped(RemoveInner(State, key).s))
    /\ proc' = "closed"
    /\ last' = Call("stop", key, NoVal, Ok)
    /\ pending' = [op |-> "remove", key |-> key, value |-> NoVal]
    /\ nops' = nops + 1
    /\ UNCHANGED <<acked, nopens>>
    /\ UNCHANGED <<tvars, ovars>>

\* the process stops inside create_new: after segment 0 was created, or in
\* the middle of writing the first metadata file
StopInOpen ==
    /\ proc = "closed"
    /\ nopens + 1 < MaxOpens
    /\ ~dump.present
    /\ \E s \in {CreateFile(State, 0), DumpTruncated(CreateFile(State, 0))} : Install(Dropped(s))
    /\ last' = Call("stop", NoVal, NoVal, Ok)
    /\ pending' = [op |-> "open", key |-> NoVal, value |-> NoVal]
    /\ nopens' = nopens + 1
    /\ UNCHANGED <<proc, acked, nops>>
    /\ UNCHANGED <<tvars, ovars>>

NextStop ==
    \/ Next
    \/ \E key \in Keys, value \in Vals : StopInSet(key, value)
    \/ \E key \in Keys : StopInRemove(key)
    \/ StopInOpen

SpecStop == Init /\ [][NextStop]_vars

\* the calls on one key alone, with stops inside set, in behaviours long
\* enough for a stop in the compaction of an engine that was recovered
OpenLong == nopens < MaxOpensOneKey /\ CallOpen

CloseLong == nopens < MaxOpensOneKey /\ CallClose

StopInSetLong(value) ==
    nops < MaxOpsOneKey /\ nopens < MaxOpensOneKey /\ StopSet("a", value)

NextStopOneKey ==
    \/ OpenLong
    \/ CloseLong
    \/ DoGet("a")
    \/ \E value \in Vals : DoSetLong(value)
    \/ DoRemove("a")
    \/ \E value \in Vals : StopInSetLong(value)

SpecStopOneKey == Init /\ [][NextStopOneKey]_vars

\* ---------------------------------------------------------- segment sizes
\* values of one byte and of half a segment: two of the long records pass
\* MAX_FILE_SIZE, one does not
SizeVals == {"x", "h"}

\* store.set(key, value) with a value of either length
DoSetSized(key, value) == nops < MaxOps /\ CallSet(key, value)

NextSize ==
    \/ Open
    \/ Close
    \/ \E key \in Keys : DoGet(key)
    \/ \E key \in Keys, value \in SizeVals : DoSetSized(key, value)
    \/ \E key \in Keys : DoRemove(key)

SpecSize == Init /\ [][NextSize]_vars

\* ------------------------------------------------------------- I/O errors
\* The operating system may fail a call the engine makes on a file; the
\* engine passes the error up with `?`.  A fault names the call that fails:
\*   append         file.write in append_command (set, remove) returns Err
\*   short          file.write in append_command returns Ok(cnt) with cnt
\*                  below the record's length: write, unlike write_all, makes
\*                  one attempt and reports the bytes it wrote
\*   rotate_writer  file.seek in FileWriter::open of the rotation
\*   rotate_reader  FileReader::open of the rotation
\*   copy           readline_at or file.write in turn n of the compaction loop
\*   dump           serde_json::to_writer in dump_to_file of the compaction
\*   remove         the first remove_file of the compaction
Fault(at, n) == [at |-> at, n |-> n]

\* the bytes of a record that reach the file when a write is cut short: the
\* line ends within its JSON text and has no newline
TornBytes == 1

NoFault == Fault("none", 0)

\* the faults that can hit store.set(key, value) in state s
SetFaults(s, key, value) ==
    LET s0 == SetAppend(s, key, value)
        s1 == SetRotate(s0)
    IN {NoFault, Fault("append", 0), Fault("short", 0)}
       \cup (IF s0.writer.total_size > MAX_FILE_SIZE
             THEN {Fault("rotate_writer", 0), Fault("rotate_reader", 0)} ELSE {})
       \cup (IF NeedCompaction(s1)
             THEN {Fault("copy", n) : n \in 1..Cardinality(DOMAIN s1.idx_map)}
                  \cup {Fault("dump", 0), Fault("remove", 0)}
             ELSE {})

\* set, lines 278-292, when file.write wrote cnt = TornBytes bytes: the
\* writer grows by cnt and the position is indexed
SetAppendShort(s, key, value) ==
    LET line == PartialLine(TornBytes)
    IN [WriteLine(s, s.writer, line) EXCEPT
            !.writer = Grown(@, line),
            !.idx_map = Put(@, key, StreamPosition(s, s.writer)),
            !.uncompacted_num = IF key \in DOMAIN s.idx_map THEN @ + 1 ELSE @]

\* remove, lines 319-327, when file.write wrote cnt = TornBytes bytes: the
\* Ok arm takes the key out of the index
RemoveAppendShort(s, key) ==
    LET line == PartialLine(TornBytes)
    IN [WriteLine(s, s.writer, line) EXCEPT
            !.writer = Grown(@, line),
            !.idx_map = Del(@, key)]

\* set, lines 284-291, when append_command returns Err: the two map calls
\* are skipped and `?` returns
SetAppendFails(s, key, value) == s

\* remove, lines 319-327, when append_command returns Err: the Err arm bails
RemoveAppendFails(s, key) == s

\* KvStoreInner::compaction with a fault inside
CompactionIo(s1, korder, fault) ==
    LET part == CompactionLoop(CompactionBegin(s1), SubSeq(korder, 1, fault.n - 1))
        c1 == CompactionLoop(CompactionBegin(s1), korder)
        c2 == CompactionSwap(c1)
    IN IF fault.at = "copy"
       THEN [s |-> Collect(part.s), res |-> Err("Failed to write str")]
       ELSE IF c1.err # NoVal THEN [s |-> Collect(c1.s), res |-> Err(c1.err)]
       ELSE IF fault.at = "dump"
            THEN [s |-> Collect(DumpTruncated(c2.s)), res |-> Err("failed to dump")]
            ELSE [s |-> Collect(DumpToFile(c2.s)),
                  res |-> Err("Failed to remove outdated file")]

\* KvStoreInner::set with a fault inside
SetInnerIo(s, key, value, korder, first, fault) ==
    LET s0 == SetAppend(s, key, value)
        s1 == SetRotate(s0)
    IN IF fault.at = "none" THEN SetCompact(s1, korder, first)
       ELSE IF fault.at = "short"
            THEN SetCompact(SetRotate(SetAppendShort(s, key, value)), korder, first)
       ELSE IF fault.at = "append"
            THEN [s |-> SetAppendFails(s, key, value), res |-> Err("Failed to write file.")]
       ELSE IF fault.at = "rotate_writer"
            THEN [s |-> [CreateFile(s0, s0.id_generator) EXCEPT
                            !.id_generator = CycleNext(@)],
                  res |-> Err("seek")]
       ELSE IF fault.at = "rotate_reader"
            THEN [s |-> [s1 EXCEPT !.readers = s0.readers], res |-> Err("open")]
       ELSE CompactionIo(s1, korder, fault)

\* KvStoreInner::remove with a fault inside
RemoveInnerIo(s, key, fault) ==
    IF key \in DOMAIN s.idx_map /\ fault.at = "append"
    THEN [s |-> RemoveAppendFails(s, key), res |-> Err("Failed to make record onto disk.")]
    ELSE IF key \in DOMAIN s.idx_map /\ fault.at = "short"
         THEN [s |-> RemoveAppendShort(s, key), res |-> Ok]
         ELSE RemoveInner(s, key)

\* the engine is open, with or without a fault behind it
Opened == proc \in {"ready", "faulted"}

\* store.get(key) on an engine that may have met a fault
DoGetIo(key) == Opened /\ CallGet(key)

\* store.set(key, value) on a system that may fail a call; the call record
\* keeps the fault.  One fault is met in the life of an engine: the calls
\* after it find the system working
DoSetIo(key, value) ==
    /\ Opened
    /\ nops < MaxOpsIo
    /\ LET s1 == SetRotate(SetAppend(State, key, value))
       IN \E fault \in (IF proc = "ready" THEN SetFaults(State, key, value) ELSE {NoFault}),
             korder \in KeyOrders(s1), first \in RemovedFirst(s1) :
            LET o == SetInnerIo(State, key, value, korder, first, fault)
            IN /\ Install(o.s)
               /\ last' = [Call("set", key, value, o.res) EXCEPT
                              !.compacted = NeedCompaction(s1)
                                  /\ fault.at \in {"none", "short", "copy", "dump", "remove"},
                              !.allowed = {fault}]
               /\ acked' = IF o.res = Ok THEN [acked EXCEPT ![key] = value] ELSE acked
               /\ proc' = IF fault = NoFault THEN proc ELSE "faulted"
    /\ nops' = nops + 1
    /\ pending' = NoCall
    /\ UNCHANGED nopens
    /\ UNCHANGED <<tvars, ovars>>

\* store.remove(key) on a system that may fail a call
DoRemoveIo(key) ==
    /\ Opened
    /\ nops < MaxOpsIo
    /\ \E fault \in (IF proc = "ready" THEN {NoFault, Fault("append", 0), Fault("short", 0)}
                                       ELSE {NoFault}) :
          LET o == RemoveInnerIo(State, key, fault)
          IN /\ key \in DOMAIN idx_map \/ fault = NoFault
             /\ Install(o.s)
             /\ last' = [Call("remove", key, NoVal, o.res) EXCEPT !.allowed = {fault}]
             /\ acked' = IF o.res = Ok THEN [acked EXCEPT ![key] = NoVal] ELSE acked
             /\ nops' = IF key \in DOMAIN idx_map THEN nops + 1 ELSE nops
             /\ proc' = IF fault = NoFault THEN proc ELSE "faulted"
    /\ pending' = NoCall
    /\ UNCHANGED nopens
    /\ UNCHANGED <<tvars, ovars>>

NextIo ==
    \/ Open
    \/ \E key \in Keys : DoGetIo(key)
    \/ \E key \in Keys, value \in Vals : DoSetIo(key, value)
    \/ \E key \in Keys : DoRemoveIo(key)

SpecIo == Init /\ [][NextIo]_vars

\* ------------------------------------------------------------ torn appends
\* the process stops inside append_command of store.set(key, value), with
\* the first bytes of the record in the active segment
StopInAppend(key, value) ==
    /\ proc = "ready"
    /\ nops < MaxOps
    /\ nopens < MaxOpens
    /\ Install(Dropped(WriteLine(State, writer, PartialLine(TornBytes))))
    /\ proc' = "closed"
    /\ last' = Call("stop", key, value, Ok)
    /\ pending' = [op |-> "set", key |-> key, value |-> value]
    /\ nops' = nops + 1
    /\ UNCHANGED <<acked, nopens>>
    /\ UNCHANGED <<tvars, ovars>>

NextTorn ==
    \/ Next
    \/ \E key \in Keys, value \in Vals : StopInAppend(key, value)

SpecTorn == Init /\ [][NextTorn]_vars

\* ---------------------------------------------------------------- threads
\* Threads of one process call get/set/remove on clones of one KvStore; the
\* clones share one Arc<RwLock<KvStoreInner>>.  A call takes the lock, runs
\* the KvStoreInner method in steps other threads may interleave with, and
\* gives the lock back when the guard goes out of scope.

\* a read guard handed out whatever the state of the lock
CanRead_NoLock(wl) == TRUE

\* RwLock::read returns a guard once no thread holds the write guard
CanRead(wl) == wl = NoThread

\* RwLock::write returns a guard once no thread holds any guard
CanWrite(rl, wl) == wl = NoThread /\ rl = {}

ResultOf(v) == IF v = NoVal THEN None ELSE Some(v)

InGet(t) == pc[t] \in {"get_lookup", "get_read"}
InMutation(t) == pc[t] \in {"set_append", "compaction_copy", "compaction_swap", "remove"}

\* what the engine answers for each key right after open
Recovered(s) == [k \in Keys |-> IF Get(s, k).kind = "Some" THEN Get(s, k).value ELSE NoVal]

\* a mutation of key completed with value v: every get of key in progress
\* may be ordered after it
Noted(key, v) ==
    [t \in Threads |-> IF InGet(t) /\ arg[t].key = key THEN seen[t] \cup {ResultOf(v)}
                       ELSE seen[t]]

\* KvStore::open(dir), before the handle is cloned for the threads
ThreadsOpen ==
    /\ proc = "closed"
    /\ nopens < MaxOpens
    /\ LET o == OpenInner(State)
       IN /\ Install(IF o.res = Ok THEN o.s ELSE Dropped(o.s))
          /\ proc' = IF o.res = Ok THEN "ready" ELSE "closed"
          /\ last' = Call("open", NoVal, NoVal, o.res)
          /\ lin' = IF o.res = Ok THEN Recovered(o.s) ELSE NoAck
    /\ nopens' = nopens + 1
    /\ UNCHANGED <<acked, pending, nops, rlock, wlock, pc, arg, loc, seen, comp, ovars>>

\* the last clone is dropped once every thread finished its call
ThreadsClose ==
    /\ proc = "ready"
    /\ nopens < MaxOpens
    /\ \A t \in Threads : pc[t] = "idle"
    /\ Install(Dropped(State))
    /\ proc' = "closed"
    /\ last' = Call("close", NoVal, NoVal, Ok)
    /\ lin' = NoAck
    /\ UNCHANGED <<acked, pending, nops, nopens, rlock, wlock, pc, arg, loc, seen, comp, ovars>>

\* KvStore::get, self.inner.read()
GetAcquire(t, key) ==
    /\ proc = "ready"
    /\ pc[t] = "idle"
    /\ CanRead(wlock)
    /\ rlock' = rlock \cup {t}
    /\ pc' = [pc EXCEPT ![t] = "get_lookup"]
    /\ arg' = [arg EXCEPT ![t] = [op |-> "get", key |-> key, value |-> NoVal]]
    /\ seen' = [seen EXCEPT ![t] = {ResultOf(lin[key])}]
    /\ UNCHANGED <<files, inodes, dump, proc, idx_map, readers, writer, uncompacted_num,
                   id_generator, compaction_threshold, acked, last, pending, nops, nopens,
                   wlock, loc, comp, lin, ovars>>

\* KvStoreInner::get, line 159
GetLookup(t) ==
    /\ pc[t] = "get_lookup"
    /\ loc' = [loc EXCEPT ![t] = Lookup(State, arg[t].key)]
    /\ pc' = [pc EXCEPT ![t] = "get_read"]
    /\ UNCHANGED <<files, inodes, dump, proc, idx_map, readers, writer, uncompacted_num,
                   id_generator, compaction_threshold, acked, last, pending, nops, nopens,
                   rlock, wlock, arg, seen, comp, lin, ovars>>

\* KvStoreInner::get, lines 160-177, and the end of the read guard; a panic
\* unwinds the thread, which drops the guard without poisoning the lock
GetRead(t) ==
    /\ pc[t] = "get_read"
    /\ last' = [Call("get", arg[t].key, NoVal, GetAt(State, arg[t].key, loc[t]))
                    EXCEPT !.allowed = seen[t]]
    /\ rlock' = rlock \ {t}
    /\ pc' = [pc EXCEPT ![t] = "idle"]
    /\ arg' = [arg EXCEPT ![t] = NoCall]
    /\ loc' = [loc EXCEPT ![t] = NoPos]
    /\ seen' = [seen EXCEPT ![t] = {}]
    /\ UNCHANGED <<files, inodes, dump, proc, idx_map, readers, writer, uncompacted_num,
                   id_generator, compaction_threshold, acked, pending, nops, nopens,
                   wlock, comp, lin, ovars>>

\* KvStore::set, self.inner.write()
SetAcquire(t, key, value) ==
    /\ proc = "ready"
    /\ pc[t] = "idle"
    /\ nops < MaxCalls
    /\ CanWrite(rlock, wlock)
    /\ wlock' = t
    /\ pc' = [pc EXCEPT ![t] = "set_append"]
    /\ arg' = [arg EXCEPT ![t] = [op |-> "set", key |-> key, value |-> value]]
    /\ nops' = nops + 1
    /\ UNCHANGED <<files, inodes, dump, proc, idx_map, readers, writer, uncompacted_num,
                   id_generator, compaction_threshold, acked, last, pending, nopens,
                   rlock, loc, seen, comp, lin, ovars>>

\* the call of thread t returns res having left the engine as s; the write
\* guard ends with it
Return(t, s, res, allowed) ==
    /\ Install(Collect(s))
    /\ last' = [Call(arg[t].op, arg[t].key, arg[t].value, res) EXCEPT !.allowed = allowed]
    /\ lin' = IF res = Ok THEN [lin EXCEPT ![arg[t].key] = arg[t].value] ELSE lin
    /\ seen' = IF res = Ok THEN Noted(arg[t].key, arg[t].value) ELSE seen
    /\ wlock' = NoThread
    /\ pc' = [pc EXCEPT ![t] = "idle"]
    /\ arg' = [arg EXCEPT ![t] = NoCall]
    /\ comp' = NoComp
    /\ UNCHANGED <<proc, acked, pending, nops, nopens, rlock, loc, ovars>>

\* KvStoreInner::set, lines 278-306, and lines 307-310 when no compaction is due
SetStep(t) ==
    /\ pc[t] = "set_append"
    /\ LET s1 == SetRotate(SetAppend(State, arg[t].key, arg[t].value))
       IN IF NeedCompaction(s1)
          THEN /\ Install(s1)
               /\ pc' = [pc EXCEPT ![t] = "compaction_copy"]
               /\ UNCHANGED <<proc, acked, last, pending, nops, nopens,
                              rlock, wlock, arg, loc, seen, comp, lin, ovars>>
          ELSE Return(t, s1, Ok, {Ok})

\* KvStoreInner::compaction, lines 198-224: the drain and the copy loop
CompactionCopyStep(t) ==
    /\ pc[t] = "compaction_copy"
    /\ \E korder \in Perms(DOMAIN idx_map) :
         LET c1 == CompactionLoop(CompactionBegin(State), korder)
         IN IF c1.err # NoVal
            THEN Return(t, c1.s, Err(c1.err), {Ok})
            ELSE /\ Install(c1.s)
                 /\ comp' = [c1 EXCEPT !.s = NoVal]
                 /\ pc' = [pc EXCEPT ![t] = "compaction_swap"]
                 /\ UNCHANGED <<proc, acked, last, pending, nops, nopens,
                                rlock, wlock, arg, loc, seen, lin, ovars>>

\* the sets of old readers that may come before one whose file is gone
RemovedBefore(c) ==
    IF DOMAIN c.new_reader_map \subseteq DOMAIN c.s.files THEN {{}}
    ELSE SUBSET ((DOMAIN c.new_reader_map) \cap (DOMAIN c.s.files))

\* KvStoreInner::compaction, lines 226-250: the swaps, the metadata file, the
\* removal of the old segments
CompactionSwapStep(t) ==
    /\ pc[t] = "compaction_swap"
    /\ LET c2 == CompactionSwap([comp EXCEPT !.s = State])
       IN \E first \in RemovedBefore(c2) :
            LET c3 == CompactionRemove([c2 EXCEPT !.s = DumpToFile(c2.s)], first)
            IN Return(t, c3.s, IF c3.err # NoVal THEN Err(c3.err) ELSE Ok, {Ok})

\* KvStore::remove, self.inner.write()
RemoveAcquire(t, key) ==
    /\ proc = "ready"
    /\ pc[t] = "idle"
    /\ nops < MaxCalls
    /\ CanWrite(rlock, wlock)
    /\ wlock' = t
    /\ pc' = [pc EXCEPT ![t] = "remove"]
    /\ arg' = [arg EXCEPT ![t] = [op |-> "remove", key |-> key, value |-> NoVal]]
    /\ nops' = nops + 1
    /\ UNCHANGED <<files, inodes, dump, proc, idx_map, readers, writer, uncompacted_num,
                   id_generator, compaction_threshold, acked, last, pending, nopens,
                   rlock, loc, seen, comp, lin, ovars>>

\* KvStoreInner::remove
RemoveStep(t) ==
    /\ pc[t] = "remove"
    /\ Return(t, RemoveInner(State, arg[t].key).s, RemoveInner(State, arg[t].key).res,
              {IF lin[arg[t].key] = NoVal THEN Err("KeyNotFound") ELSE Ok})

NextThreads ==
    \/ ThreadsOpen
    \/ ThreadsClose
    \/ \E t \in Threads, key \in Keys : GetAcquire(t, key)
    \/ \E t \in Threads : GetLookup(t)
    \/ \E t \in Threads : GetRead(t)
    \/ \E t \in Threads, key \in Keys, value \in Vals : SetAcquire(t, key, value)
    \/ \E t \in Threads : SetStep(t)
    \/ \E t \in Threads : CompactionCopyStep(t)
    \/ \E t \in Threads : CompactionSwapStep(t)
    \/ \E t \in Threads, key \in Keys : RemoveAcquire(t, key)
    \/ \E t \in Threads : RemoveStep(t)

SpecThreads == Init /\ [][NextThreads]_vars

\* ----------------------------------------------------------------- server
\* One kvs-server process on the directory and its clients.  CommandServer
\* serves one connection at a time on the thread that accepts.

\* the engines a server is configured with, as the tokens of the marker file
EngineTypes == {"kvs", "sled"}

\* EngineType::from_str(&buf).ok() on the content of the marker file
PrevEngine(content) == IF content \in EngineTypes THEN content ELSE NoVal

\* Instruction, and the line serde_json makes of it
InsSet(key, value) == [tag |-> "Set", key |-> key, value |-> value]
InsGet(key) == [tag |-> "Get", key |-> key, value |-> NoVal]
InsRm(key) == [tag |-> "Rm", key |-> key, value |-> NoVal]
Instructions ==
    {InsSet(k, v) : k \in ReqKeys, v \in ReqVals} \cup {InsGet(k) : k \in ReqKeys}
        \cup {InsRm(k) : k \in ReqKeys}

\* a line that is no Instruction
Malformed == [tag |-> "malformed", key |-> NoVal, value |-> NoVal]

\* serde_json::from_str::<Instruction>(&line)
ParseInstruction(line) == IF line.tag \in {"Set", "Get", "Rm"} THEN Some(line) ELSE Err("parse")

\* Response; the text is kept as the pieces format! joins
RespOk(text) == [tag |-> "Ok", text |-> text]
RespError(text) == [tag |-> "Error", text |-> text]

\* anyhow::Error::to_string of what the engine bailed with
ErrText(e, key) == IF e.value = "KeyNotFound" THEN <<"Key: ", key, " not found.">> ELSE <<e.value>>

\* a closure that makes an Error of a Get that found nothing
Respond_GetMissingIsError(ins, eng) ==
    IF eng.kind = "Err" THEN RespError(ErrText(eng, ins.key))
    ELSE IF ins.tag = "Get"
         THEN IF eng.kind = "Some" THEN RespOk(<<eng.value>>)
              ELSE RespError(<<"Key: ", ins.key, " not found">>)
         ELSE RespOk(<<>>)

\* the closure of KvServer::run and Response::from, given the engine's answer
Respond(ins, eng) ==
    IF eng.kind = "Err" THEN RespError(ErrText(eng, ins.key))
    ELSE IF ins.tag = "Get"
         THEN IF eng.kind = "Some" THEN RespOk(<<eng.value>>)
              ELSE RespOk(<<"Key: ", ins.key, " not found">>)
         ELSE RespOk(<<>>)

\* the call the closure makes on the segment engine
EngineCall(s, ins, korder, first) ==
    IF ins.tag = "Get" THEN [s |-> s, res |-> Get(s, ins.key)]
    ELSE IF ins.tag = "Set" THEN SetInner(s, ins.key, ins.value, korder, first)
    ELSE RemoveInner(s, ins.key)

\* SledAdapter::get / set / remove
SledCall(m, ins) ==
    IF ins.tag = "Get" THEN [s |-> m, res |-> ResultOf(m[ins.key])]
    ELSE IF ins.tag = "Set" THEN [s |-> [m EXCEPT ![ins.key] = ins.value], res |-> Ok]
    ELSE IF m[ins.key] = NoVal THEN [s |-> m, res |-> Err("KeyNotFound")]
    ELSE [s |-> [m EXCEPT ![ins.key] = NoVal], res |-> Ok]

\* CommandClient::send_instruction, lines 25-30: the line read, decoded
Decode(resp) == IF resp.tag = "Ok" THEN [kind |-> "Ok", text |-> resp.text]
                ELSE [kind |-> "Err", text |-> resp.text]

\* read_line at the end of the stream leaves buf empty, which is no Response
DecodeEof == [kind |-> "Err", text |-> <<"Error when parsing from json. ">>]

\* the server process is gone: its sockets are closed under the clients
Hangup(n, why) ==
    [c \in Conns |-> IF n[c].state = "open" THEN [n[c] EXCEPT !.state = why, !.inbox = <<>>]
                     ELSE IF n[c].state = "shut" THEN NoConnection
                     ELSE n[c]]

\* KvServer::new / main: the marker file, the listener, the engine
Start(e) ==
    /\ server.state = "down"
    /\ nstarts < MaxStarts
    /\ nstarts' = nstarts + 1
    /\ IF PrevEngine(mark) # NoVal /\ PrevEngine(mark) # e
       THEN /\ server' = [ServerDown EXCEPT !.config = e, !.outcome = "mismatch"]
            /\ UNCHANGED <<files, inodes, dump, proc, idx_map, readers, writer,
                           uncompacted_num, id_generator, compaction_threshold, mark, last>>
       ELSE /\ mark' = e
            /\ IF e = "kvs"
               THEN LET o == OpenInner(State)
                    IN /\ Install(IF o.res = Ok THEN o.s ELSE Dropped(o.s))
                       /\ proc' = IF o.res = Ok THEN "ready" ELSE "closed"
                       /\ last' = Call("open", NoVal, NoVal, o.res)
                       /\ server' = IF o.res = Ok
                                    THEN [ServerDown EXCEPT !.state = "accept", !.config = e,
                                                            !.engine = e, !.outcome = "serving"]
                                    ELSE [ServerDown EXCEPT !.config = e,
                                                            !.outcome = "engine failed"]
               ELSE /\ server' = [ServerDown EXCEPT !.state = "accept", !.config = e,
                                                    !.engine = e, !.outcome = "serving"]
                    /\ UNCHANGED <<files, inodes, dump, proc, idx_map, readers, writer,
                                   uncompacted_num, id_generator, compaction_threshold, last>>
    /\ UNCHANGED <<acked, pending, nops, nopens, sled, net, hist, nreq>>
    /\ UNCHANGED <<tvars, pvars, cli, lvars>>

\* the server process is stopped while it waits in accept or in read
Stop ==
    /\ server.state # "down"
    /\ nstarts < MaxStarts
    /\ Install(Dropped(State))
    /\ proc' = "closed"
    /\ server' = [ServerDown EXCEPT !.outcome = "stopped"]
    /\ net' = Hangup(net, "stopped")
    /\ UNCHANGED <<acked, last, pending, nops, nopens, mark, sled, hist, nreq, nstarts>>
    /\ UNCHANGED <<tvars, pvars, cli, lvars>>

\* CommandClient::connect
Connect(c) ==
    /\ net[c].state = "closed"
    /\ server.state # "down"
    /\ net' = [net EXCEPT ![c] = [NoConnection EXCEPT !.state = "open"]]
    /\ hist' = [hist EXCEPT ![c] = NoHistory]
    /\ server' = [server EXCEPT !.backlog = Append(@, c)]
    /\ UNCHANGED <<files, inodes, dump, proc, idx_map, readers, writer, uncompacted_num,
                   id_generator, compaction_threshold, acked, last, pending, nops, nopens,
                   mark, sled, nreq, nstarts>>
    /\ UNCHANGED <<tvars, pvars, cli, lvars>>

\* CommandClient::send_instruction, lines 19-22: the request line is written
Send(c, ins) ==
    /\ net[c].state \in {"open", "reset", "stopped"}
    /\ Len(hist[c].sent) = Len(hist[c].got)
    /\ nreq < MaxRequests
    /\ nreq' = nreq + 1
    /\ hist' = [hist EXCEPT ![c].sent = Append(@, ins)]
    /\ net' = IF net[c].state = "open" THEN [net EXCEPT ![c].inbox = Append(@, ins)] ELSE net
    /\ UNCHANGED <<files, inodes, dump, proc, idx_map, readers, writer, uncompacted_num,
                   id_generator, compaction_threshold, acked, last, pending, nops, nopens,
                   mark, sled, server, nstarts>>
    /\ UNCHANGED <<tvars, pvars, cli, lvars>>

\* CommandClient::send_instruction, lines 23-30: one line is read and decoded
Recv(c) ==
    /\ Len(hist[c].sent) > Len(hist[c].got)
    /\ \/ /\ net[c].outbox # <<>>
          /\ hist' = [hist EXCEPT ![c].got = Append(@, Decode(Head(net[c].outbox)))]
          /\ net' = [net EXCEPT ![c].outbox = Tail(@)]
       \/ /\ net[c].outbox = <<>>
          /\ net[c].state \in {"reset", "stopped"}
          /\ hist' = [hist EXCEPT ![c].got = Append(@, DecodeEof)]
          /\ UNCHANGED net
    /\ UNCHANGED <<files, inodes, dump, proc, idx_map, readers, writer, uncompacted_num,
                   id_generator, compaction_threshold, acked, last, pending, nops, nopens,
                   mark, sled, server, nreq, nstarts>>
    /\ UNCHANGED <<tvars, pvars, cli, lvars>>

\* a client that writes a line which is no Instruction
SendMalformed(c) ==
    /\ net[c].state = "open"
    /\ Len(hist[c].sent) = Len(hist[c].got)
    /\ nreq < MaxRequests
    /\ nreq' = nreq + 1
    /\ net' = [net EXCEPT ![c].inbox = Append(@, Malformed)]
    /\ hist' = [hist EXCEPT ![c].raw = TRUE]
    /\ UNCHANGED <<files, inodes, dump, proc, idx_map, readers, writer, uncompacted_num,
                   id_generator, compaction_threshold, acked, last, pending, nops, nopens,
                   mark, sled, server, nstarts>>
    /\ UNCHANGED <<tvars, pvars, cli, lvars>>

\* the client drops its CommandClient
Disconnect(c) ==
    /\ net[c].state \in {"open", "reset", "stopped"}
    /\ Len(hist[c].sent) = Len(hist[c].got)
    /\ net' = [net EXCEPT ![c] = IF net[c].state = "open" THEN [@ EXCEPT !.state = "shut"]
                                 ELSE NoConnection]
    /\ UNCHANGED <<files, inodes, dump, proc, idx_map, readers, writer, uncompacted_num,
                   id_generator, compaction_threshold, acked, last, pending, nops, nopens,
                   mark, sled, server, hist, nreq, nstarts>>
    /\ UNCHANGED <<tvars, pvars, cli, lvars>>

\* CommandServer::run, line 121: accept
Accept ==
    /\ server.state = "accept"
    /\ server.backlog # <<>>
    /\ server' = [server EXCEPT !.state = "serve", !.cur = Head(server.backlog),
                                !.backlog = Tail(server.backlog)]
    /\ UNCHANGED <<files, inodes, dump, proc, idx_map, readers, writer, uncompacted_num,
                   id_generator, compaction_threshold, acked, last, pending, nops, nopens,
                   mark, sled, net, hist, nreq, nstarts>>
    /\ UNCHANGED <<tvars, pvars, cli, lvars>>

\* a panic on the thread of CommandServer::run ends the server process
ServerPanics ==
    /\ Install(Dropped(State))
    /\ proc' = "closed"
    /\ server' = [ServerDown EXCEPT !.outcome = "panicked"]
    /\ net' = Hangup(net, "reset")
    /\ UNCHANGED <<sled, hist>>

\* the response line is written to the connection being served
Answer(ins, present, eng) ==
    /\ net' = [net EXCEPT ![server.cur].inbox = Tail(@),
                          ![server.cur].outbox = Append(@, Respond(ins, eng))]
    /\ hist' = [hist EXCEPT ![server.cur].done =
                    Append(@, [ins |-> ins, present |-> present, eng |-> eng,
                               resp |-> Respond(ins, eng)])]
    /\ UNCHANGED <<proc, server>>

\* CommandServer::run, lines 125-134: one turn of the loop over the lines
HandleLine ==
    /\ server.state = "serve"
    /\ net[server.cur].inbox # <<>>
    /\ LET ins == ParseInstruction(Head(net[server.cur].inbox))
       IN IF ins.kind = "Err" THEN ServerPanics
          ELSE IF server.engine = "sled"
          THEN /\ sled' = SledCall(sled, ins.value).s
               /\ net' = [net EXCEPT ![server.cur].inbox = Tail(@),
                                     ![server.cur].outbox =
                                         Append(@, Respond(ins.value, SledCall(sled, ins.value).res))]
               /\ hist' = [hist EXCEPT ![server.cur].done =
                               Append(@, [ins |-> ins.value,
                                          present |-> sled[ins.value.key] # NoVal,
                                          eng |-> SledCall(sled, ins.value).res,
                                          resp |-> Respond(ins.value, SledCall(sled, ins.value).res)])]
               /\ UNCHANGED <<files, inodes, dump, proc, idx_map, readers, writer,
                              uncompacted_num, id_generator, compaction_threshold, server>>
          ELSE LET s1 == IF ins.value.tag = "Set"
                         THEN SetRotate(SetAppend(State, ins.value.key, ins.value.value))
                         ELSE State
               IN \E korder \in KeyOrders(s1), first \in RemovedFirst(s1) :
                    LET o == EngineCall(State, ins.value, korder, first)
                    IN IF o.res.kind = "Panic" THEN ServerPanics
                       ELSE /\ Install(o.s)
                            /\ sled' = sled
                            /\ Answer(ins.value, ins.value.key \in DOMAIN idx_map, o.res)
    /\ UNCHANGED <<acked, last, pending, nops, nopens, mark, nreq, nstarts>>
    /\ UNCHANGED <<tvars, pvars, cli, lvars>>

\* CommandServer::run, line 135: the client closed, the loop over the lines ends
EndOfStream ==
    /\ server.state = "serve"
    /\ net[server.cur].inbox = <<>>
    /\ net[server.cur].state = "shut"
    /\ net' = [net EXCEPT ![server.cur] = NoConnection]
    /\ server' = [server EXCEPT !.state = "accept", !.cur = NoConn]
    /\ UNCHANGED <<files, inodes, dump, proc, idx_map, readers, writer, uncompacted_num,
                   id_generator, compaction_threshold, acked, last, pending, nops, nopens,
                   mark, sled, hist, nreq, nstarts>>
    /\ UNCHANGED <<tvars, pvars, cli, lvars>>

NextServer ==
    \/ \E e \in EngineTypes : Start(e)
    \/ Stop
    \/ \E c \in Conns : Connect(c)
    \/ \E c \in Conns, ins \in Instructions : Send(c, ins)
    \/ \E c \in Conns : Recv(c)
    \/ \E c \in Conns : SendMalformed(c)
    \/ \E c \in Conns : Disconnect(c)
    \/ Accept
    \/ HandleLine
    \/ EndOfStream

SpecServer == Init /\ [][NextServer]_vars

\* KvServer::run, line 98: engine.flush().unwrap() when sled's flush returns
\* Err after the instruction was carried out: the unwrap panics on the
\* thread of CommandServer::run and no response is written
FlushFails ==
    /\ server.state = "serve"
    /\ server.engine = "sled"
    /\ net[server.cur].inbox # <<>>
    /\ LET ins == ParseInstruction(Head(net[server.cur].inbox))
       IN /\ ins.kind # "Err"
          /\ sled' = SledCall(sled, ins.value).s
    /\ Install(Dropped(State))
    /\ proc' = "closed"
    /\ server' = [ServerDown EXCEPT !.outcome = "panicked"]
    /\ net' = Hangup(net, "reset")
    /\ UNCHANGED <<acked, last, pending, nops, nopens, mark, hist, nreq, nstarts>>
    /\ UNCHANGED <<tvars, pvars, cli, lvars>>

NextServerIo ==
    \/ NextServer
    \/ FlushFails

SpecServerIo == Init /\ [][NextServerIo]_vars

\* ------------------------------------------------- thread_pool/shared_pool.rs
\* what a task does when it runs
TaskKinds == {"returns", "panics"}

\* TaskMessage::NewTask and TaskMessage::Shutdown
NewTask(id, kind) == [tag |-> "NewTask", id |-> id, kind |-> kind]

Shutdown == [tag |-> "Shutdown", id |-> 0, kind |-> "-"]

\* a thread running thread_main_loop, blocked in recv
Worker(name) == [name |-> name, state |-> "recv", task |-> 0, kind |-> "-"]

\* recv of a channel that keeps the messages in the order of the sends:
\* the oldest message and what stays
Receive_Newest(queue) ==
    [msg |-> queue[Len(queue)], rest |-> SubSeq(queue, 1, Len(queue) - 1)]

Receive(queue) == [msg |-> Head(queue), rest |-> Tail(queue)]

\* drop of a WorkerGuard: the threads it starts
WorkerGuardDrop_NoReliever(name, panicking) == <<>>

WorkerGuardDrop(name, panicking) == IF panicking THEN <<Worker(name)>> ELSE <<>>

\* the workers serving the channel: blocked in recv or running a task
Serving == {w \in 1..Len(workers) : workers[w].state \in {"recv", "run"}}

\* the workers unwinding from a panic, their guard not yet dropped
Unwinding == {w \in 1..Len(workers) : workers[w].state = "panicking"}

\* SharedQueueThreadPool::new(n)
PoolNew(n) ==
    /\ ~pool.made
    /\ pool' = [made |-> TRUE, alive |-> TRUE, threads |-> n, queue |-> <<>>]
    /\ workers' = [i \in 1..n |-> Worker(i)]
    /\ UNCHANGED <<kvars, tvars, svars, started, nspawn, cli, lvars>>

\* SharedQueueThreadPool::spawn(job)
Spawn(kind) ==
    /\ pool.alive
    /\ nspawn < MaxTasks
    /\ pool' = [pool EXCEPT !.queue = Append(@, NewTask(nspawn + 1, kind))]
    /\ nspawn' = nspawn + 1
    /\ UNCHANGED <<kvars, tvars, svars, workers, started, cli, lvars>>

\* a drop that sends one message less than the pool has threads
Shutdowns_OneShort(n) == [i \in 1..(n - 1) |-> Shutdown]

\* drop, lines 44-46: one Shutdown for each of the n join handles
Shutdowns(n) == [i \in 1..n |-> Shutdown]

\* drop of the SharedQueueThreadPool: the messages are sent, then the sender
\* is dropped with the pool
PoolDrop ==
    /\ pool.alive
    /\ pool' = [pool EXCEPT !.alive = FALSE,
                            !.queue = @ \o Shutdowns(pool.threads)]
    /\ UNCHANGED <<kvars, tvars, svars, workers, started, nspawn, cli, lvars>>

\* thread_main_loop: recv returns a message, or Err once the channel is
\* empty and its sender dropped
WorkerRecv(w) ==
    /\ workers[w].state = "recv"
    /\ IF pool.queue = <<>>
       THEN /\ pool.made /\ ~pool.alive
            /\ workers' = [workers EXCEPT ![w].state = "exited"]
                              \o WorkerGuardDrop(workers[w].name, FALSE)
            /\ UNCHANGED <<pool, started>>
       ELSE LET r == Receive(pool.queue) IN
            /\ pool' = [pool EXCEPT !.queue = r.rest]
            /\ IF r.msg.tag = "NewTask"
               THEN /\ workers' = [workers EXCEPT ![w].state = "run",
                                                  ![w].task = r.msg.id,
                                                  ![w].kind = r.msg.kind]
                    /\ started' = Append(started, r.msg.id)
               ELSE /\ workers' = [workers EXCEPT ![w].state = "exited"]
                                      \o WorkerGuardDrop(workers[w].name, FALSE)
                    /\ UNCHANGED started
    /\ UNCHANGED <<kvars, tvars, svars, nspawn, cli, lvars>>

\* thread_main_loop: task() returns and the loop goes back to recv
TaskReturns(w) ==
    /\ workers[w].state = "run"
    /\ workers[w].kind = "returns"
    /\ workers' = [workers EXCEPT ![w].state = "recv"]
    /\ UNCHANGED <<kvars, tvars, svars, pool, started, nspawn, cli, lvars>>

\* thread_main_loop: task() panics and the thread starts to unwind
TaskPanics(w) ==
    /\ workers[w].state = "run"
    /\ workers[w].kind = "panics"
    /\ workers' = [workers EXCEPT ![w].state = "panicking"]
    /\ UNCHANGED <<kvars, tvars, svars, pool, started, nspawn, cli, lvars>>

\* the unwinding drops the guard of thread_main_loop and the thread ends
Unwind(w) ==
    /\ workers[w].state = "panicking"
    /\ workers' = [workers EXCEPT ![w].state = "exited"]
                      \o WorkerGuardDrop(workers[w].name, TRUE)
    /\ UNCHANGED <<kvars, tvars, svars, pool, started, nspawn, cli, lvars>>

\* a step of one of the threads
WorkerNext ==
    \E w \in 1..Len(workers) :
        WorkerRecv(w) \/ TaskReturns(w) \/ TaskPanics(w) \/ Unwind(w)

NextPool ==
    \/ \E n \in 1..MaxWorkers : PoolNew(n)
    \/ \E kind \in TaskKinds : Spawn(kind)
    \/ PoolDrop
    \/ WorkerNext

\* the threads are scheduled and the tasks that return do so in the end
SpecPool == Init /\ [][NextPool]_vars /\ WF_vars(WorkerNext)

\* ------------------------------------------------------------- bin/kvs.rs
\* the command lines get_matcher accepts with a subcommand
CliArgs ==
    {<<"set", k, v>> : k \in ReqKeys, v \in ReqVals}
        \cup {<<"get", k>> : k \in ReqKeys} \cup {<<"rm", k>> : k \in ReqKeys}

\* the status the parent sees for exit(code): its low eight bits
ExitStatus(code) == code % 256

\* main of the kvs program, run in the directory while no handle is open
Kvs(args) ==
    /\ proc = "closed"
    /\ cli.n < MaxRuns
    /\ cli' = [n |-> cli.n + 1, args |-> args, stdout |-> <<>>,
               stderr |-> <<"unimplemented">>, code |-> ExitStatus(-1)]
    /\ UNCHANGED <<kvars, tvars, svars, pvars, lvars>>

NextCli ==
    \/ NextOneKey
    \/ \E args \in CliArgs : Kvs(args)

SpecCli == Init /\ [][NextCli]_vars

\* ------------------------------------------------------------- src/kvstore.rs
\* the crate-root KvStore: one current file out of storage_A.db and
\* storage_B.db, and config.json naming it
STORAGE_FILE_A == "storage_A.db"
STORAGE_FILE_B == "storage_B.db"

\* values of one byte, so that every Insertion line has the same length
LegacyVals == {"x", "z"}

\* the engine's variables the two-file store never touches
evars == <<files, inodes, dump, proc, idx_map, readers, writer, uncompacted_num,
           id_generator, compaction_threshold, pending>>

\* OpenOptions::new().create(true).write(true).read(true).open(path)
OpenOrCreate(st, name) == IF name \in DOMAIN st THEN st ELSE Put(st, name, <<>>)

\* KvStore::replay, from line i on
RECURSIVE ReplayFrom(_, _, _)
ReplayFrom(content, i, map) ==
    IF i > Len(content) THEN [res |-> Ok, map |-> map]
    ELSE LET command == Parse(content[i]) IN
         IF command = ParseError THEN [res |-> Err("Error to parse JSON string"), map |-> EmptyMap]
         ELSE IF command.tag = "Insertion"
              THEN ReplayFrom(content, i + 1, Put(map, command.key, Off(content, i)))
              ELSE ReplayFrom(content, i + 1, Del(map, command.key))

\* KvStore::replay
LegacyReplay(content) == ReplayFrom(content, 1, EmptyMap)

\* KvStore::query_command_index
QueryCommandIndex(idx, content) == Parse(ReadLineAt(content, idx))

\* KvStore::append_command
LegacyAppend(content, command) ==
    [idx |-> Size(content), content |-> Append(content, Serialize(command))]

\* writes of a handle opened without truncate, from position 0: the lines
\* replace the first bytes of the file, what lies behind them stays
Overwrite(content, lines) ==
    LET n == Size(lines) IN
    IF n >= Size(content) THEN lines
    ELSE LET i == MinOf({j \in 1..Len(content) : Off(content, j + 1) > n}) IN
         IF Off(content, i) = n THEN lines \o SubSeq(content, i, Len(content))
         ELSE lines \o <<PartialLine(Off(content, i + 1) - n)>>
                    \o SubSeq(content, i + 1, Len(content))

\* the store: its handle and its directory
Legacy == [yolk |-> yolk, storage |-> storage, config |-> config]

\* KvStore::open
LegacyOpen(l) ==
    LET current_file_name == IF l.config.current_file = NoVal THEN STORAGE_FILE_A
                             ELSE l.config.current_file
        st == OpenOrCreate(l.storage, current_file_name)
        replayed == LegacyReplay(st[current_file_name])
    IN  IF replayed.res # Ok
        THEN [res |-> replayed.res, l |-> [l EXCEPT !.storage = st]]
        ELSE [res |-> Ok,
              l |-> [l EXCEPT !.storage = st,
                              !.yolk = [fp |-> current_file_name, mem_map |-> replayed.map,
                                        log_num |-> l.config.log_num,
                                        current_file |-> current_file_name]]]

\* KvStore::get
LegacyGet(l, key) ==
    IF key \notin DOMAIN l.yolk.mem_map THEN None
    ELSE LET deserialized == QueryCommandIndex(l.yolk.mem_map[key], l.storage[l.yolk.fp]) IN
         IF deserialized.tag = "Insertion"
         THEN IF deserialized.key # key THEN Err("Mismatched command key")
              ELSE Some(deserialized.value)
         ELSE Err("Invalid command")

\* the lines compaction writes for the keys of mem_map, taken in this order
RECURSIVE Copied(_, _, _)
Copied(content, mem_map, order) ==
    IF order = <<>> THEN <<>>
    ELSE <<Serialize(Insertion(Head(order),
                               QueryCommandIndex(mem_map[Head(order)], content).value))>>
         \o Copied(content, mem_map, Tail(order))

\* KvStore::compaction; order is the order in which the HashMap yields its keys
LegacyCompaction(l, order) ==
    LET spare_file == IF l.yolk.current_file = STORAGE_FILE_A THEN STORAGE_FILE_B
                      ELSE STORAGE_FILE_A
        st == OpenOrCreate(l.storage, spare_file)
        replayed == LegacyReplay(st[l.yolk.fp])
        lines == Copied(st[l.yolk.fp], replayed.map, order)
        at == [key \in DOMAIN replayed.map |->
                  Off(lines, CHOOSE i \in 1..Len(order) : order[i] = key)]
    IN  IF replayed.res # Ok
        THEN [res |-> replayed.res, l |-> [l EXCEPT !.storage = st]]
        ELSE [res |-> Ok,
              l |-> [l EXCEPT
                  !.storage = [name \in DOMAIN st |->
                                  IF name = spare_file THEN Overwrite(st[name], lines)
                                  ELSE IF name = l.yolk.fp THEN <<>>
                                  ELSE st[name]],
                  !.yolk = [fp |-> spare_file,
                            mem_map |-> [key \in DOMAIN l.yolk.mem_map \cup DOMAIN at |->
                                            IF key \in DOMAIN at THEN at[key]
                                            ELSE l.yolk.mem_map[key]],
                            log_num |-> Len(order),
                            current_file |-> spare_file]]]

\* the orders in which compaction may meet the keys the current file holds
Orders(l) == Perms(DOMAIN LegacyReplay(l.storage[l.yolk.fp]).map)

\* KvStore::set
LegacySet(l, key, value, order) ==
    LET appended == LegacyAppend(l.storage[l.yolk.fp], Insertion(key, value))
        l1 == [l EXCEPT !.storage[l.yolk.fp] = appended.content,
                        !.yolk.log_num = @ + 1,
                        !.yolk.mem_map = Put(@, key, appended.idx)]
    IN  IF l1.yolk.log_num > 2 * Cardinality(DOMAIN l1.yolk.mem_map)
        THEN LegacyCompaction(l1, order)
        ELSE [res |-> Ok, l |-> l1]

\* KvStore::remove
LegacyRemove(l, key) ==
    LET replayed == LegacyReplay(l.storage[l.yolk.fp]) IN
    IF replayed.res # Ok THEN [res |-> replayed.res, l |-> l]
    ELSE IF key \in DOMAIN replayed.map
         THEN [res |-> Ok,
               l |-> [l EXCEPT
                   !.storage[l.yolk.fp] = LegacyAppend(@, Discard(key)).content,
                   !.yolk.mem_map = Del(replayed.map, key),
                   !.yolk.log_num = @ + 1]]
         ELSE [res |-> Err("Key not found"), l |-> [l EXCEPT !.yolk.mem_map = replayed.map]]

\* KvStore::sync_config
SyncConfig(l) ==
    [l EXCEPT !.config = [current_file |-> l.yolk.current_file, log_num |-> l.yolk.log_num]]

\* impl Drop for KvStore: flush, sync_config, and the handle is gone
LegacyDrop(l) == [SyncConfig(l) EXCEPT !.yolk = NoYolk]

InstallLegacy(l) == yolk' = l.yolk /\ storage' = l.storage /\ config' = l.config

LegacyOpened == yolk.fp # NoVal

DoLegacyOpen ==
    /\ ~LegacyOpened
    /\ nopens < MaxOpens
    /\ LET r == LegacyOpen(Legacy) IN
       /\ InstallLegacy(r.l)
       /\ last' = Call("open", NoVal, NoVal, r.res)
    /\ nopens' = nopens + 1
    /\ UNCHANGED <<acked, nops>>
    /\ UNCHANGED <<evars, tvars, svars, pvars, cli>>

DoLegacyGet(key) ==
    /\ LegacyOpened
    /\ last' = Call("get", key, NoVal, LegacyGet(Legacy, key))
    /\ UNCHANGED <<acked, nops, nopens, lvars>>
    /\ UNCHANGED <<evars, tvars, svars, pvars, cli>>

DoLegacySet(key, value) ==
    /\ LegacyOpened
    /\ nops < MaxOps
    /\ \E order \in Orders([Legacy EXCEPT
                               !.storage[yolk.fp] = Append(@, Serialize(Insertion(key, value)))]) :
          LET r == LegacySet(Legacy, key, value, order) IN
          /\ InstallLegacy(r.l)
          /\ last' = Call("set", key, value, r.res)
          /\ acked' = IF r.res = Ok THEN [acked EXCEPT ![key] = value] ELSE acked
    /\ nops' = nops + 1
    /\ UNCHANGED nopens
    /\ UNCHANGED <<evars, tvars, svars, pvars, cli>>

DoLegacyRemove(key) ==
    /\ LegacyOpened
    /\ nops < MaxOps
    /\ LET r == LegacyRemove(Legacy, key) IN
       /\ InstallLegacy(r.l)
       /\ last' = Call("remove", key, NoVal, r.res)
       /\ acked' = IF r.res = Ok THEN [acked EXCEPT ![key] = NoVal] ELSE acked
    /\ nops' = nops + 1
    /\ UNCHANGED nopens
    /\ UNCHANGED <<evars, tvars, svars, pvars, cli>>

\* the handle is dropped: Drop runs
LegacyClose ==
    /\ LegacyOpened
    /\ nopens < MaxOpens
    /\ InstallLegacy(LegacyDrop(Legacy))
    /\ last' = Call("drop", NoVal, NoVal, Ok)
    /\ UNCHANGED <<acked, nops, nopens>>
    /\ UNCHANGED <<evars, tvars, svars, pvars, cli>>

\* the process stops between two calls: Drop does not run
LegacyStop ==
    /\ LegacyOpened
    /\ nopens < MaxOpens
    /\ yolk' = NoYolk
    /\ last' = Call("stop", NoVal, NoVal, Ok)
    /\ UNCHANGED <<acked, nops, nopens, storage, config>>
    /\ UNCHANGED <<evars, tvars, svars, pvars, cli>>

NextLegacy ==
    \/ DoLegacyOpen
    \/ LegacyClose
    \/ LegacyStop
    \/ \E key \in Keys : DoLegacyGet(key)
    \/ \E key \in Keys, value \in LegacyVals : DoLegacySet(key, value)
    \/ \E key \in Keys : DoLegacyRemove(key)

SpecLegacy == Init /\ [][NextLegacy]_vars

\* ----------------------------------------------------------------- claims
\* what get must return for a key, given the calls that returned Ok
Expected(k) == IF acked[k] = NoVal THEN None ELSE Some(acked[k])

\* the line an index entry points at decodes to an Insertion of that key,
\* in a segment file that exists
EntryValid(s, k) ==
    /\ s.idx_map[k].file_id \in DOMAIN s.files
    /\ Parse(ReadLineAt(s.inodes[s.files[s.idx_map[k].file_id]], s.idx_map[k].pos)).tag = "Insertion"
    /\ Parse(ReadLineAt(s.inodes[s.files[s.idx_map[k].file_id]], s.idx_map[k].pos)).key = k

\* the engine an orderly close followed by an open of the directory yields
Reopened(s) == OpenInner(Dropped(s))

\* C1: once set(key, value) returned Ok and no later set or remove of the key
\* returned Ok, get(key) returns Some(value), in a new and in a reopened engine
C1_GetReturnsLastSet ==
    proc = "ready" => \A k \in Keys : acked[k] # NoVal => Get(State, k) = Some(acked[k])

\* C2: a key never set with success, or whose last successful call was a
\* remove, has get(key) = None
C2_GetOfAbsentKeyIsNone ==
    proc = "ready" => \A k \in Keys : acked[k] = NoVal => Get(State, k) = None

\* C3: closing the engine and opening the directory again yields an engine
\* whose get agrees with the closed engine's get on every key
C3_ReopenKeepsMapping ==
    (proc = "ready" /\ \A k \in Keys : Get(State, k) = Expected(k)) =>
        /\ Reopened(State).res = Ok
        /\ \A k \in Keys : Get(Reopened(State).s, k) = Get(State, k)

\* C5: a compaction leaves get(key) of every key as it was after the set that
\* triggered it was applied and before the compaction ran
C5_CompactionKeepsMapping ==
    [][(last'.op = "set" /\ last'.compacted) =>
            \A k \in Keys :
                Get(State', k) = Get(SetRotate(SetAppend(State, last'.key, last'.value)), k)]_vars

\* C8: remove of a key that is not in the index returns KeyNotFound and leaves
\* the segments, the metadata file and the engine's state as they were
C8_RemoveAbsentNoEffect ==
    [][\A k \in Keys :
            (last'.op = "remove" /\ last'.key = k /\ k \notin DOMAIN idx_map) =>
                /\ last'.res = Err("KeyNotFound")
                /\ UNCHANGED <<files, inodes, dump, idx_map, readers, writer,
                               uncompacted_num, id_generator, compaction_threshold>>]_vars

C8_Witness ==
    /\ last.op = "remove"
    /\ last.res = Err("KeyNotFound")
    /\ DOMAIN idx_map # {}
    /\ \E id \in DOMAIN files : inodes[files[id]] # <<>>

\* C9: every index entry points at a well-formed Insertion of its key in a
\* segment file that exists on disk
C9_IndexEntriesValid ==
    proc = "ready" => \A k \in DOMAIN idx_map : EntryValid(State, k)

\* C10: an overwriting set adds 1 to uncompacted, a successful remove adds 2,
\* a set of a new key leaves it, and it is 0 right after a compaction
C10_CounterAccounting ==
    [][/\ (last'.op = "remove" /\ last'.res = Ok) =>
              uncompacted_num' = uncompacted_num + 2
       /\ (last'.op = "set" /\ last'.res = Ok /\ ~last'.compacted) =>
              uncompacted_num' = IF last'.key \in DOMAIN idx_map
                                 THEN uncompacted_num + 1 ELSE uncompacted_num
       /\ (last'.op = "set" /\ last'.res = Ok /\ last'.compacted) =>
              uncompacted_num' = 0]_vars

\* C4: when the process stopped between two calls or inside a set (its
\* rotation and compaction included) or a remove, and the directory is opened
\* again, the open yields an engine and every get reflects the last set or
\* remove that had returned Ok (the interrupted call may or may not show)
C4_StopKeepsAckedCalls ==
    (last.op = "open" /\ pending.op # "open") =>
        /\ proc = "ready"
        /\ \A k \in Keys :
              \/ Get(State, k) = Expected(k)
              \/ pending.key = k /\ pending.op = "set" /\ Get(State, k) = Some(pending.value)
              \/ pending.key = k /\ pending.op = "remove" /\ Get(State, k) = None

\* C7: the lock discipline of the segment engine.  A get runs only while its
\* thread holds a read guard, a set/remove (rotation and compaction included)
\* only while its thread holds the write guard; so no get is in progress
\* while a mutation is, at most one mutation is in progress, and a get in
\* progress sees no compaction half done: nothing is between drain and swap,
\* and the position it looked up is still the one the index holds.
C7_LockDiscipline ==
    /\ \A t \in Threads : InGet(t) => t \in rlock /\ wlock = NoThread
    /\ \A t \in Threads : InMutation(t) => wlock = t /\ rlock = {}
    /\ \A t, u \in Threads : InMutation(t) /\ InMutation(u) => t = u
    /\ \A t, u \in Threads : ~(InGet(t) /\ InMutation(u))
    /\ \A t \in Threads : InGet(t) => comp = NoComp
    /\ \A t \in Threads : pc[t] = "get_read" => loc[t] = Lookup(State, arg[t].key)

\* a compaction between its drain and its swaps, the index drained and the
\* old index held by the compaction alone, while the write guard is held
C7_Witness ==
    /\ \E t \in Threads : pc[t] = "compaction_swap" /\ wlock = t
    /\ idx_map = EmptyMap
    /\ comp.old_idx_map # EmptyMap

\* C6: the calls of the threads on one handle are linearizable.  A get
\* returns the value the key had by the mutations completed before it began,
\* or by one that completed while it ran; a remove fails exactly when the key
\* has no value by the mutations completed before it.
C6_Linearizable ==
    last.op \in {"get", "remove"} => last.res \in last.allowed

\* the records in the segment files of the directory
RecordsOnDisk(s) ==
    UNION {{[file_id |-> id, pos |-> Off(s.inodes[s.files[id]], i)] :
               i \in 1..Len(s.inodes[s.files[id]])} : id \in DOMAIN s.files}

\* the records that are the indexed Insertion of a live key
LiveRecords(s) ==
    {s.idx_map[k] : k \in {x \in DOMAIN s.idx_map : EntryValid(s, x)}}

\* the dead records: superseded Insertions, Insertions of removed keys, Discards
DeadRecords(s) == RecordsOnDisk(s) \ LiveRecords(s)

\* C11: after open and after every call that returned, uncompacted_num is at
\* most the number of dead records in the segment files.
C11_UncompactedBelowDead ==
    proc = "ready" => uncompacted_num <= Cardinality(DeadRecords(State))

\* the bytes of all segment files of the directory
RECURSIVE TotalBytesOf(_, _)
TotalBytesOf(s, ids) ==
    IF ids = {} THEN 0
    ELSE LET id == CHOOSE x \in ids : TRUE
         IN Size(s.inodes[s.files[id]]) + TotalBytesOf(s, ids \ {id})

TotalBytes(s) == TotalBytesOf(s, DOMAIN s.files)

\* C12: the segment files hold no more bytes right after a compaction than
\* right before it (the state of the set that compacts, past its append and
\* its rotation).
C12_CompactionShrinksDisk ==
    [][(last'.op = "set" /\ last'.compacted)
          => TotalBytes(State') <= TotalBytes(SetRotate(SetAppend(State, last'.key, last'.value)))]_vars

\* the ids the cyclic counter handed out while it went from a to b
Between(a, b) == IF a <= b THEN a..(b - 1) ELSE (a..(MAX_FILE_ID - 1)) \cup (0..(b - 1))

\* C20: every id the cyclic counter hands out, to a rotation in set or to a
\* compaction for its output segments, is the id of no reader the engine
\* holds at that time (the active segment's reader included).
C20_FreshSegmentIds ==
    [][last'.op = "set" =>
          LET s0 == SetAppend(State, last'.key, last'.value)
              s1 == SetRotate(s0)
          IN /\ \A id \in Between(s0.id_generator, s1.id_generator) : id \notin DOMAIN s0.readers
             /\ \A id \in Between(s1.id_generator, id_generator') : id \notin DOMAIN s1.readers]_vars

\* the requests the server handled, on any connection
Handled == UNION {{hist[c].done[n] : n \in 1..Len(hist[c].done)} : c \in Conns}

\* C13: the response of the server to each kind of request.  A Set the engine
\* accepted answers Ok(""); a Get of a key the store holds answers Ok(value)
\* and a Get of a key it does not hold answers Ok("Key: k not found"); an Rm
\* of a key the store holds answers Ok("") and an Rm of a key it does not
\* hold answers Error("Key: k not found.").
C13_RequestMapping ==
    \A d \in Handled :
        /\ (d.ins.tag = "Set" /\ d.eng = Ok) => d.resp = RespOk(<<>>)
        /\ (d.ins.tag = "Get" /\ d.present) =>
               d.eng.kind = "Some" /\ d.resp = RespOk(<<d.eng.value>>)
        /\ (d.ins.tag = "Get" /\ ~d.present) =>
               d.resp = RespOk(<<"Key: ", d.ins.key, " not found">>)
        /\ (d.ins.tag = "Rm" /\ d.present) => d.resp = RespOk(<<>>)
        /\ (d.ins.tag = "Rm" /\ ~d.present) =>
               d.resp = RespError(<<"Key: ", d.ins.key, " not found.">>)

\* the server answered an Rm of a missing key, a Set and a Get of the key
\* the Set stored
C13_Witness ==
    /\ \E d \in Handled : d.ins.tag = "Rm" /\ ~d.present /\ d.resp.tag = "Error"
    /\ \E d \in Handled : d.ins.tag = "Set" /\ d.eng = Ok
    /\ \E d \in Handled : d.ins.tag = "Get" /\ d.present /\ d.resp = RespOk(<<"x">>)

\* the turn of the server's loop that takes a malformed line off the
\* connection it serves (and not the stop of the process from outside)
TakesMalformed ==
    /\ server.state = "serve"
    /\ net[server.cur].inbox # <<>>
    /\ Head(net[server.cur].inbox) = Malformed
    /\ net'[server.cur].inbox # net[server.cur].inbox
    /\ server'.outcome # "stopped"

\* C14: a line that is no valid request ends only the connection it came on:
\* the server goes on accepting and every other connection stays as it was.
C14_MalformedEndsOneConnection ==
    [][TakesMalformed =>
          /\ server'.state # "down"
          /\ \A c \in Conns \ {server.cur} : net'[c] = net[c]]_vars

\* C15: on a connection used through the helper alone, the helper returns
\* for the n-th instruction it sent the response the server computed for
\* that instruction, as long as nobody stopped the server process.
C15_FifoResponses ==
    [][\A c \in Conns :
          (Len(hist'[c].got) = Len(hist[c].got) + 1 /\ ~hist[c].raw
                                                     /\ net[c].state # "stopped") =>
              /\ Len(hist[c].done) >= Len(hist'[c].got)
              /\ hist[c].done[Len(hist'[c].got)].ins = hist[c].sent[Len(hist'[c].got)]
              /\ hist'[c].got[Len(hist'[c].got)] =
                     Decode(hist[c].done[Len(hist'[c].got)].resp)]_vars

\* the step is a startup of the server
IsStartup == nstarts' = nstarts + 1

\* C16: the first startup writes the configured engine to the marker file;
\* a later startup with that engine succeeds; a later startup with another
\* engine fails before it serves and leaves the marker file as it was; the
\* marker never changes once it is written.
C16_EngineGuard ==
    [][/\ (IsStartup /\ mark = "") => mark' = server'.config
       /\ (IsStartup /\ mark # "" /\ server'.config = mark) => server'.outcome = "serving"
       /\ (IsStartup /\ mark # "" /\ server'.config # mark) =>
              /\ server'.outcome = "mismatch"
              /\ server'.state = "down"
       /\ mark # "" => mark' = mark]_vars

\* C17: a pool of N workers keeps N workers: never more than N threads serve
\* the channel, while the pool is alive the workers serving it and the ones
\* still unwinding from a panic are N, a thread that ends by a panic leaves
\* a fresh thread in recv on the same channel, and after a panic the pool
\* is back to N serving workers (or was dropped).
C17_PoolKeepsWorkers ==
    /\ [](Cardinality(Serving) <= pool.threads)
    /\ [](pool.alive => Cardinality(Serving) + Cardinality(Unwinding) = pool.threads)
    /\ [][\A w \in 1..Len(workers) :
            (workers[w].state = "panicking" /\ workers'[w].state = "exited") =>
                /\ Len(workers') = Len(workers) + 1
                /\ workers'[Len(workers')] = Worker(workers[w].name)]_vars
    /\ (Unwinding # {}) ~> (~pool.alive \/ Cardinality(Serving) = pool.threads)

\* a task spawned behind a task that panicked was started by the reliever
\* in a pool of one worker, the pool still alive and back to one worker
C17_Witness ==
    /\ pool.alive /\ pool.threads = 1
    /\ Len(workers) = 2 /\ workers[1].state = "exited"
    /\ workers[2].state = "run" /\ workers[2].task = 2
    /\ Cardinality(Serving) = 1

\* the tasks spawned so far that a worker took from the channel
Started == Range(started)

C19_CliContract ==
    [][cli'.n = cli.n + 1 =>
        LET r == cli'
            k == r.args[2]
            notfound == <<"Key: ", k, " not found">>
        IN  CASE r.args[1] = "get" ->
                   /\ r.code = 0
                   /\ r.stdout = IF acked[k] # NoVal THEN <<acked[k]>> ELSE notfound
              [] r.args[1] = "set" -> r.code = 0 /\ r.stdout = <<>>
              [] r.args[1] = "rm" ->
                   IF acked[k] # NoVal
                   THEN r.code = 0 /\ r.stdout = <<>>
                   ELSE r.code # 0 /\ r.stderr = notfound]_vars

\* C21: while an engine is open, between its calls, the segment files of the
\* directory are exactly the segments the engine holds a reader for (a
\* compaction removed every file that is not in the new readers map and none
\* of the files it wrote).
C21_FilesAreReaders == proc = "ready" => DOMAIN files = DOMAIN readers

\* C22: create_new starts the engine with the initial threshold and a counter
\* of 0; a set compacts exactly when, with the record appended and indexed,
\* the counter is strictly above the threshold; that compaction leaves the
\* counter at 0 and the threshold doubled; a set that finds the counter at
\* or below the threshold leaves the threshold and the metadata file alone.
C22_CompactionTrigger ==
    [][/\ (last'.op = "open" /\ last'.res = Ok /\ ~dump.present) =>
            compaction_threshold' = InitialThreshold /\ uncompacted_num' = 0
       /\ last'.op = "set" =>
            LET s1 == SetRotate(SetAppend(State, last'.key, last'.value))
            IN IF s1.uncompacted_num > s1.compaction_threshold
               THEN /\ uncompacted_num' = 0
                    /\ compaction_threshold' = 2 * compaction_threshold
                    /\ dump'.compaction_threshold = compaction_threshold'
               ELSE /\ uncompacted_num' = s1.uncompacted_num
                    /\ compaction_threshold' = compaction_threshold
                    /\ dump' = dump
                    /\ idx_map' = s1.idx_map]_vars

\* an engine made by create_new compacted in a set that found the counter one
\* above the threshold, after a set that found it equal to the threshold
C22_Witness ==
    /\ nopens = 1 /\ proc = "ready"
    /\ last.op = "set" /\ last.compacted
    /\ uncompacted_num = 0
    /\ compaction_threshold = 2 * InitialThreshold
    /\ nops = InitialThreshold + 2

\* C23: a compaction writes the whole new metadata file before it removes an
\* old segment: a stop that left a pre-compaction segment removed left the
\* new metadata file complete.  After a stop between the metadata write and
\* the end of the removals the next open succeeds and gets return what they
\* would have returned after the compaction.
C23_DumpBeforeDelete ==
    [][/\ (last'.op = "stop" /\ pending'.op = "set"
             /\ (DOMAIN files) \ (DOMAIN files') # {}) =>
            dump'.complete /\ last'.allowed # {}
       /\ (last.op = "stop" /\ last.allowed # {} /\ last'.op = "open") =>
            last'.res = Ok /\ Mapping(State') \in last.allowed]_vars

\* C24: a stop inside a set, whatever the point of the metadata rewrite it
\* falls on, leaves a metadata file that is complete (the old one or the new
\* one), and the next open does not fail to restore it.
C24_DumpRewriteAtomic ==
    /\ [](pending.op = "set" => dump.complete)
    /\ [][(last.op = "stop" /\ pending.op = "set" /\ last'.op = "open") =>
            last'.res # Err("failed to restore")]_vars

\* the segment a recovery replays holds a line that does not decode
ReplaysBadLine(s) ==
    /\ s.dump.present /\ s.dump.complete /\ DOMAIN s.files # {}
    /\ LET content == s.inodes[s.files[MaxOf(DOMAIN s.files)]]
       IN \E i \in 1..Len(content) : Parse(content[i]) = ParseError

\* C25: an open that replays a segment with a line that does not decode
\* returns an error; it does not return an engine.
C25_BadLineFailsOpen ==
    [][(last'.op = "open" /\ nopens' = nopens + 1 /\ ReplaysBadLine(State)) =>
            last'.res.kind = "Err" /\ proc' = "closed"]_vars

\* C26: an open of a directory with a metadata file, after the engine was
\* closed, takes the threshold from the metadata file, makes the segment with
\* the largest id the active one, replays that segment from offset 0 onto the
\* index and the counter of the metadata file, and ends with the index the
\* engine held when it was closed.
C26_RecoveryRebuildsIndex ==
    [][(last.op = "close" /\ last'.op = "open" /\ last'.res = Ok) =>
         LET active == MaxOf(DOMAIN files)
             r == Replay([idx_map |-> dump.frozen_idx_map,
                          uncompacted |-> dump.uncompacted_size],
                         inodes[files[active]], active, 1)
         IN /\ compaction_threshold' = dump.compaction_threshold
            /\ writer'.file_id = active
            /\ idx_map' = r.idx_map
            /\ uncompacted_num' = r.uncompacted
            /\ idx_map' \in last.allowed]_vars

\* C27: remove(key) of a present key: when the key leaves the index the
\* Discard record of the key is the last record of the active segment; when
\* the append fails remove returns an error, the index keeps the key and
\* get(key) answers what it answered before.
C27_RemoveAppendsFirst ==
    [][(last'.op = "remove" /\ last'.key \in DOMAIN idx_map) =>
          LET key == last'.key
              content == inodes'[writer'.ino]
          IN /\ key \notin DOMAIN idx_map' =>
                   /\ last'.res = Ok
                   /\ content # <<>>
                   /\ content[Len(content)] = Serialize(Discard(key))
             /\ last'.allowed = {Fault("append", 0)} =>
                   /\ last'.res.kind = "Err"
                   /\ idx_map' = idx_map
                   /\ Get(State', key) = Get(State, key)]_vars

\* C28: set(key, value): when set returns Ok the index entry of the key
\* points at the start of the Insertion record of (key, value) in a segment
\* of the directory; when the append fails set returns an error and the
\* index and the uncompacted counter are unchanged.
C28_IndexAfterAppend ==
    [][last'.op = "set" =>
          LET key == last'.key
              cmd_pos == Lookup(State', key)
          IN /\ last'.res = Ok =>
                   /\ cmd_pos # NoPos
                   /\ cmd_pos.file_id \in DOMAIN files'
                   /\ ReadLineAt(inodes'[files'[cmd_pos.file_id]], cmd_pos.pos)
                          = Serialize(Insertion(key, last'.value))
             /\ last'.allowed = {Fault("append", 0)} =>
                   /\ last'.res.kind = "Err"
                   /\ idx_map' = idx_map
                   /\ uncompacted_num' = uncompacted_num]_vars

\* C29: whenever set(key, value) returns an error, the mapping get shows is
\* the mapping before the call or that mapping with key -> value; no other
\* key's entry is lost or changed.
C29_SetFailureAtomic ==
    [][(last'.op = "set" /\ last'.res.kind = "Err") =>
          Mapping(State') \in {Mapping(State),
                               [Mapping(State) EXCEPT ![last'.key] = Some(last'.value)]}]_vars

\* the index entry of key names a segment without a reader, or the line at
\* the entry's position in the segment's file is not an Insertion of key
Corrupted(s, key) ==
    /\ key \in DOMAIN s.idx_map
    /\ LET cmd_pos == s.idx_map[key]
       IN \/ cmd_pos.file_id \notin DOMAIN s.readers
          \/ /\ cmd_pos.file_id \in DOMAIN s.files
             /\ LET cmd == Parse(ReadLineAt(s.inodes[s.files[cmd_pos.file_id]], cmd_pos.pos))
                IN cmd.tag # "Insertion" \/ cmd.key # key

\* C30: get(key) for an indexed key whose segment has no reader, or whose
\* record is not an Insertion of that key, returns an error (not None, not
\* a value), and the call changes no state.
C30_CorruptGetIsError ==
    /\ [](Opened => \A key \in Keys : Corrupted(State, key) => Get(State, key).kind = "Err")
    /\ [][\A key \in Keys : (Opened /\ Corrupted(State, key) /\ CallGet(key)) => UNCHANGED vars]_vars

C30_Witness ==
    /\ proc = "faulted"
    /\ \E key \in DOMAIN idx_map :
          /\ idx_map[key].file_id \notin DOMAIN readers
          /\ Get(State, key).kind = "Err"
    /\ \E key \in DOMAIN idx_map : Get(State, key).kind = "Some"

\* C31: while an engine is open (after open and after every set and remove
\* returned), every segment id of an index entry is a key of readers, and so
\* is the segment id of the active writer.
C31_IndexInReaders ==
    proc = "ready" =>
        /\ \A key \in DOMAIN idx_map : idx_map[key].file_id \in DOMAIN readers
        /\ writer.file_id \in DOMAIN readers

\* C32: right after a set whose compaction returned Ok the segment files hold
\* one record for each live key and nothing else, that record is the
\* Insertion the index points to, and every index entry lies in a segment
\* this compaction created.
C32_CompactionOutput ==
    [][(last'.op = "set" /\ last'.compacted /\ last'.res = Ok) =>
          /\ RecordsOnDisk(State') = LiveRecords(State')
          /\ \A key \in DOMAIN idx_map' :
                /\ EntryValid(State', key)
                /\ idx_map'[key].file_id \notin DOMAIN files]_vars

\* C33: no segment file received a record after it had passed MAX_FILE_SIZE:
\* every file, without its last record, is at most MAX_FILE_SIZE long, so a
\* file is never longer than MAX_FILE_SIZE plus one record.
C33_SegmentSizeLimit ==
    \A id \in DOMAIN files :
        LET content == inodes[files[id]]
        IN content # <<>> => Off(content, Len(content)) <= MAX_FILE_SIZE

\* C34: the accept loop never waits for a connection's handler: whenever a
\* running server holds a connection whose request line has arrived, the
\* server can take a step (accept, handle a line, end a connection) without
\* any other client doing something first.
C34_AcceptNeverWaits ==
    \A c \in Conns :
        (server.state # "down" /\ net[c].state = "open" /\ net[c].inbox # <<>>) =>
            ENABLED (Accept \/ HandleLine \/ EndOfStream)

\* C35: a request whose engine operation fails is answered with an Error
\* response carrying the message, and the server goes on: no step of a
\* server that holds a well-formed request line ends the server in a panic.
C35_EngineErrorAnswered ==
    [][(server.state = "serve" /\ net[server.cur].inbox # <<>>
            /\ ParseInstruction(Head(net[server.cur].inbox)).kind # "Err") =>
          LET c == server.cur
              done == hist'[c].done
          IN /\ server'.outcome # "panicked"
             /\ (Len(done) = Len(hist[c].done) + 1 /\ done[Len(done)].eng.kind = "Err") =>
                   /\ done[Len(done)].resp = RespError(ErrText(done[Len(done)].eng, done[Len(done)].ins.key))
                   /\ net'[c].outbox = Append(net[c].outbox, done[Len(done)].resp)
                   /\ server' = server]_vars

\* the workers that left thread_main_loop or ended by a panic
Exited == {w \in 1..Len(workers) : workers[w].state = "exited"}

\* C36: the drop of a pool of N threads appends exactly N Shutdown messages
\* behind the queued tasks; a worker blocked in recv leaves only by taking a
\* Shutdown, which no other worker takes, or on the empty channel of a
\* dropped pool, and it starts no thread; once the pool is dropped every
\* spawned task is started and every worker, relievers included, exits in
\* the end.
C36_ShutdownStopsWorkers ==
    /\ [][(pool.alive /\ ~pool'.alive) =>
            /\ pool'.queue = pool.queue \o [i \in 1..pool.threads |-> Shutdown]
            /\ workers' = workers]_vars
    /\ [][\A w \in 1..Len(workers) :
            (workers[w].state = "recv" /\ workers'[w].state = "exited") =>
                /\ Len(workers') = Len(workers)
                /\ \A v \in 1..Len(workers) : v # w => workers'[v] = workers[v]
                /\ \/ /\ pool.queue # <<>>
                      /\ Head(pool.queue) = Shutdown
                      /\ pool'.queue = Tail(pool.queue)
                   \/ /\ pool.queue = <<>>
                      /\ ~pool.alive
                      /\ pool' = pool]_vars
    /\ [][Len(pool'.queue) < Len(pool.queue) /\ Head(pool.queue) = Shutdown =>
            Cardinality(Exited') = Cardinality(Exited) + 1]_vars
    /\ (pool.made /\ ~pool.alive) ~>
            (Len(started) = nspawn /\ Exited = 1..Len(workers) /\ pool.queue = <<>>)

\* a dropped pool of two threads whose three tasks were all started, with a
\* reliever among the workers, the channel empty and every worker gone
C36_Witness ==
    /\ pool.made /\ ~pool.alive /\ pool.threads = 2
    /\ nspawn = MaxTasks /\ Len(started) = MaxTasks
    /\ Len(workers) > pool.threads
    /\ Exited = 1..Len(workers)
    /\ pool.queue = <<>>

\* C37: in the two-file store, when the process stopped without running Drop
\* and the directory is opened again, the open succeeds and every key reads
\* the value of the last set or remove of it that had returned Ok
C37_LegacyStopKeepsAcked ==
    [][(last.op = "stop" /\ last'.op = "open") =>
          /\ last'.res = Ok
          /\ \A key \in Keys :
                LegacyGet([yolk |-> yolk', storage |-> storage', config |-> config'], key)
                    = Expected(key)]_vars

====
